---- MODULE Spec2Model ----
(***************************************************************************)
(* A model of the azubiheft MCP server: the scraping client (Session), the *)
(* session registry (AzubiheftService) and the remote web application it   *)
(* talks to.  Strings the code takes apart (page texts, attribute values,  *)
(* form fields) are sequences of tokens; a page is the sequence of the     *)
(* elements a selector finds in it, in document order.                     *)
(***************************************************************************)
EXTENDS Integers, Sequences, FiniteSets, TLC

VARIABLES
    overview,   \* remote: the week tiles of /Azubi/Ausbildungsnachweise.aspx
    dayPages,   \* remote: date -> the div.d0.mo containers of Tagesbericht.aspx
    subjPage,   \* remote: the page /Azubi/SetupSchulfach.aspx
    now,        \* the clock, time.Now().Unix()
    sessions,   \* AzubiheftService.sessions: handle -> Session object
    defaultSessionID,   \* AzubiheftService.defaultSessionID
    objs,       \* the Session objects made by NewSession, each with its cookie jar
    mu,         \* AzubiheftService.sessionsMutex
    calls,      \* caller -> the tool call it is in, or has made last
    uuids,      \* the number of identifiers uuid.New has given out
    last,       \* the last Session call: its arguments and its result
    reqs,       \* the requests the last Session call issued, in order
    serve,      \* mcp.Server.Serve: where its loop stands and the line in hand
    stdout      \* the responses written for the line in hand

reportVars == <<overview, dayPages>>

serviceVars == <<sessions, defaultSessionID, objs, mu, calls, uuids>>

serverVars == <<serve, stdout>>

vars == <<overview, dayPages, subjPage, now, last, reqs, sessions, defaultSessionID,
          objs, mu, calls, uuids, serve, stdout>>

(***************************************************************************)
(* Bounds of the model.                                                    *)
(***************************************************************************)
MaxTiles == 2
MaxEntries == 2
MaxInputs == 2
MaxTicks == 1

\* The clock's value when the model starts.
StartTime == 1700000000

\* All sequences over S of length at most n.
SeqUpTo(S, n) == UNION {[1..k -> S] : k \in 0..n}

(***************************************************************************)
(* Token strings.                                                          *)
(***************************************************************************)
SpaceTokens == {" ", "\n", "\t"}

RECURSIVE TrimLeft(_)
TrimLeft(s) ==
    IF s # <<>> /\ Head(s) \in SpaceTokens THEN TrimLeft(Tail(s)) ELSE s

RECURSIVE TrimRight(_)
TrimRight(s) ==
    IF s # <<>> /\ s[Len(s)] \in SpaceTokens
    THEN TrimRight(SubSeq(s, 1, Len(s) - 1))
    ELSE s

\* strings.TrimSpace
TrimSpace(s) == TrimRight(TrimLeft(s))

\* strings.TrimPrefix
TrimPrefix(s, p) ==
    IF Len(s) >= Len(p) /\ SubSeq(s, 1, Len(p)) = p
    THEN SubSeq(s, Len(p) + 1, Len(s))
    ELSE s

\* strings.ReplaceAll, one token for one token
ReplaceAll(s, old, new) == [i \in 1..Len(s) |-> IF s[i] = old THEN new ELSE s[i]]

\* The decimal numerals the pages of the model show.
NumVal == [t \in {"1", "24", "53", "2020", "2024", "2025"} |->
             CASE t = "1" -> 1
               [] t = "24" -> 24
               [] t = "53" -> 53
               [] t = "2020" -> 2020
               [] t = "2024" -> 2024
               [] t = "2025" -> 2025]

\* strconv.Atoi: a single numeral parses, anything else is an error.
Atoi(s) ==
    IF Len(s) = 1 /\ s[1] \in DOMAIN NumVal
    THEN [ok |-> TRUE, val |-> NumVal[s[1]]]
    ELSE [ok |-> FALSE, val |-> 0]

(***************************************************************************)
(* Dates and time.Time.ISOWeek.                                            *)
(***************************************************************************)
Date(y, m, d) == [y |-> y, m |-> m, d |-> d]

NoDate == Date(0, 0, 0)

\* Days since 1970-01-01 of a civil date.
DaysFromCivil(y, m, d) ==
    LET yy  == IF m <= 2 THEN y - 1 ELSE y
        era == yy \div 400
        yoe == yy - era * 400
        mp  == (m + 9) % 12
        doy == (153 * mp + 2) \div 5 + d - 1
        doe == yoe * 365 + yoe \div 4 - yoe \div 100 + doy
    IN  era * 146097 + doe - 719468

\* time.Weekday: Sunday = 0 ... Saturday = 6.
Weekday(date) == (DaysFromCivil(date.y, date.m, date.d) + 4) % 7

\* The year whose days hold absolute day abs, near year y.
YearOfDay(abs, y) ==
    CHOOSE yy \in (y - 1)..(y + 1) :
        DaysFromCivil(yy, 1, 1) <= abs /\ abs < DaysFromCivil(yy + 1, 1, 1)

\* time.Time.ISOWeek: shift to the Thursday of the date's week; the ISO year
\* is that Thursday's year and the week is its day of the year / 7 + 1.
ISOWeek(date) ==
    LET wd   == Weekday(date)
        d    == IF 4 - wd = 4 THEN -3 ELSE 4 - wd
        abs  == DaysFromCivil(date.y, date.m, date.d) + d
        year == YearOfDay(abs, date.y)
    IN  [year |-> year, week |-> (abs - DaysFromCivil(year, 1, 1)) \div 7 + 1]

\* The dates of the model: 2024-12-30 (Monday, ISO week 1 of 2025),
\* 2021-01-03 (Sunday, ISO week 53 of 2020), 2025-06-11 (week 24 of 2025)
\* and 2025-01-05 (Sunday, week 1 of 2025).
WeekDates == {Date(2024, 12, 30), Date(2021, 1, 3), Date(2025, 6, 11), Date(2025, 1, 5)}

(***************************************************************************)
(* Requests.  Every request the client issues is logged with the answer    *)
(* the remote gave: "ok" (status 200), "status" (another status),          *)
(* "transport" (no response) or "read" (the body could not be read).       *)
(***************************************************************************)
GetOutcomes == {"ok", "transport", "read"}
PostOutcomes == {"ok", "transport", "status"}

NoForm == [Seq |-> <<>>, Art_ID |-> 0, Dauer |-> <<>>, Inhalt |-> <<>>]

Get(path, date, outcome) ==
    [method |-> "GET", path |-> path, date |-> date, brnr |-> 0, t |-> 0,
     form |-> NoForm, outcome |-> outcome, body |-> <<>>]

Post(path, date, brnr, t, form, outcome) ==
    [method |-> "POST", path |-> path, date |-> date, brnr |-> brnr, t |-> t,
     form |-> form, outcome |-> outcome, body |-> <<>>]

OverviewPath == "/Azubi/Ausbildungsnachweise.aspx"
DayPath == "/Azubi/Tagesbericht.aspx"
AjaxPath == "/Azubi/XMLHttpRequest.ashx"

(***************************************************************************)
(* The week overview and Session.GetReportWeekID.                          *)
(* A tile is a div.mo.NBox: whether it has an onclick attribute and the    *)
(* digits after "NachweisNr=" in it (0: the attribute holds none), the     *)
(* number of div.sKW elements in it and their text, the number of div.KW   *)
(* elements and the texts of the div elements below them.                  *)
(***************************************************************************)
Tile(hasOnclick, nr, nSKW, kwText, nKW, yearDivs) ==
    [hasOnclick |-> hasOnclick, nr |-> nr, nSKW |-> nSKW, kwText |-> kwText,
     nKW |-> nKW, yearDivs |-> yearDivs]

GoodTile(kw, year, nr) ==
    Tile(TRUE, nr, 1, <<"\n", kw, " ">>, 1, <<<<"KW">>, <<kw>>, <<" ", year>>>>)

TileShapes ==
    { GoodTile("1", "2025", 11), GoodTile("1", "2025", 12),
      GoodTile("1", "2024", 13), GoodTile("53", "2020", 14),
      GoodTile("24", "2025", 15),
      Tile(FALSE, 0, 1, <<"1">>, 1, <<<<"KW">>, <<"1">>, <<"2025">>>>),
      Tile(TRUE, 0, 1, <<"1">>, 1, <<<<"KW">>, <<"1">>, <<"2025">>>>),
      Tile(TRUE, 16, 0, <<>>, 1, <<<<"KW">>, <<"1">>, <<"2025">>>>),
      Tile(TRUE, 17, 1, <<"1">>, 0, <<>>),
      Tile(TRUE, 18, 1, <<"1">>, 1, <<<<"1">>, <<"2025">>>>),
      Tile(TRUE, 19, 1, <<"KW">>, 1, <<<<"KW">>, <<"1">>, <<"2025">>>>),
      Tile(TRUE, 20, 1, <<"1">>, 1, <<<<"KW">>, <<"1">>, <<"KW">>>>) }

\* The body of the Each callback with the year test left out.
TileWeekIDAnyYear(t, year, week, weekID) ==
    IF ~t.hasOnclick \/ t.nSKW = 0 \/ t.nKW = 0 \/ Len(t.yearDivs) < 3
    THEN weekID
    ELSE LET kw == Atoi(TrimSpace(t.kwText))
             kwYear == Atoi(TrimSpace(t.yearDivs[3]))
         IN  IF kw.ok /\ kwYear.ok /\ kw.val = week /\ t.nr # 0
             THEN t.nr
             ELSE weekID

\* The body of the Each callback: the week id after tile t, given the one
\* before it.
TileWeekID(t, year, week, weekID) ==
    IF ~t.hasOnclick THEN weekID
    ELSE IF t.nSKW = 0 THEN weekID
    ELSE IF t.nKW = 0 THEN weekID
    ELSE IF Len(t.yearDivs) < 3 THEN weekID
    ELSE LET kw == Atoi(TrimSpace(t.kwText))
         IN  IF ~kw.ok THEN weekID
             ELSE LET kwYear == Atoi(TrimSpace(t.yearDivs[3]))
                  IN  IF ~kwYear.ok THEN weekID
                      ELSE IF kw.val = week /\ kwYear.val = year
                           THEN IF t.nr # 0 THEN t.nr ELSE weekID
                           ELSE weekID

\* doc.Find("div.mo.NBox").Each: every tile is visited, in document order.
RECURSIVE ScanTiles(_, _, _, _)
ScanTiles(tiles, year, week, weekID) ==
    IF tiles = <<>> THEN weekID
    ELSE ScanTiles(Tail(tiles), year, week, TileWeekID(Head(tiles), year, week, weekID))

ErrGetReports == "failed to get reports page"
ErrParseReports == "failed to parse reports page"
ErrNoWeek == "no report found for week"

\* GetReportWeekID answering from the page it read first: the overview is
\* fetched, the identifier is the one of the first call.
GetReportWeekIDCached(date, net, tiles) ==
    LET req == Get(OverviewPath, NoDate, net)
        iso == ISOWeek(date)
        id  == ScanTiles(<<GoodTile("1", "2024", 13), GoodTile("1", "2025", 11)>>,
                         iso.year, iso.week, 0)
    IN  IF net = "transport"
        THEN [weekID |-> 0, err |-> ErrGetReports, reqs |-> <<req>>]
        ELSE IF net = "read"
        THEN [weekID |-> 0, err |-> ErrParseReports, reqs |-> <<req>>]
        ELSE [weekID |-> id, err |-> "", reqs |-> <<req>>]

\* Session.GetReportWeekID; weekID 0 stands for the empty string.
GetReportWeekID(date, net, tiles) ==
    LET req == Get(OverviewPath, NoDate, net)
        iso == ISOWeek(date)
        id  == ScanTiles(tiles, iso.year, iso.week, 0)
    IN  IF net = "transport"
        THEN [weekID |-> 0, err |-> ErrGetReports, reqs |-> <<req>>]
        ELSE IF net = "read"
        THEN [weekID |-> 0, err |-> ErrParseReports, reqs |-> <<req>>]
        ELSE IF id = 0
        THEN [weekID |-> 0, err |-> ErrNoWeek, reqs |-> <<req>>]
        ELSE [weekID |-> id, err |-> "", reqs |-> <<req>>]


(***************************************************************************)
(* The day page and Session.GetReport.                                     *)
(* A container is a div.d0.mo: its data-seq attribute, the text of its     *)
(* div.row2.d4 (duration) and div.row1.d3 (type), and the inner HTML of    *)
(* its div.row7.d5 (body).                                                 *)
(***************************************************************************)
Container(seq, dur, typ, html) == [seq |-> seq, dur |-> dur, typ |-> typ, html |-> html]

ReportEntry(seq, typ, dur, text) ==
    [Seq |-> seq, Type |-> typ, Duration |-> dur, Text |-> text]

MarkupTokens == {"<div>", "</div>", "<br/>", "<br>"}

\* goquery Selection.Text: the text nodes, markup left out.
InnerText(html) == SelectSeq(html, LAMBDA t : t \notin MarkupTokens)

ZeroDuration == <<"00:00">>

\* The Each callback of GetReport without the 00:00 test.
EntryOfUnfiltered(c, includeFormatting) ==
    <<ReportEntry(c.seq, TrimPrefix(TrimSpace(c.typ), <<"Art: ">>), TrimSpace(c.dur),
                  TrimSpace(InnerText(c.html)))>>

\* The Each callback of GetReport: the entries container c adds.
EntryOf(c, includeFormatting) ==
    LET duration == TrimSpace(c.dur)
        activityType == TrimPrefix(TrimSpace(c.typ), <<"Art: ">>)
        text == IF includeFormatting
                THEN ReplaceAll(ReplaceAll(c.html, "<br/>", "\n"), "<br>", "\n")
                ELSE TrimSpace(InnerText(c.html))
    IN  IF duration = ZeroDuration
        THEN <<>>
        ELSE <<ReportEntry(c.seq, activityType, duration, text)>>

\* The containers visited from the last to the first.
RECURSIVE ParseEntriesBackwards(_, _)
ParseEntriesBackwards(page, includeFormatting) ==
    IF page = <<>> THEN <<>>
    ELSE ParseEntriesBackwards(Tail(page), includeFormatting)
             \o EntryOf(Head(page), includeFormatting)

\* doc.Find("div.d0.mo").Each: the containers in document order.
RECURSIVE ParseEntries(_, _)
ParseEntries(page, includeFormatting) ==
    IF page = <<>> THEN <<>>
    ELSE EntryOf(Head(page), includeFormatting)
             \o ParseEntries(Tail(page), includeFormatting)

ErrGetReport == "failed to get report page"
ErrParseReport == "failed to parse report page"

\* Session.GetReport
GetReport(date, includeFormatting, net, page) ==
    LET req == Get(DayPath, date, net)
    IN  IF net = "transport"
        THEN [entries |-> <<>>, err |-> ErrGetReport, reqs |-> <<req>>]
        ELSE IF net = "read"
        THEN [entries |-> <<>>, err |-> ErrParseReport, reqs |-> <<req>>]
        ELSE [entries |-> ParseEntries(page, includeFormatting), err |-> "",
              reqs |-> <<req>>]

(***************************************************************************)
(* Session.WriteReport.                                                    *)
(***************************************************************************)
\* strings.Split(message, "\n")
RECURSIVE SplitLines(_, _)
SplitLines(s, cur) ==
    IF s = <<>> THEN <<cur>>
    ELSE IF Head(s) = "\n" THEN <<cur>> \o SplitLines(Tail(s), <<>>)
    ELSE SplitLines(Tail(s), Append(cur, Head(s)))

\* Every line wrapped in <div>...</div>, joined.
RECURSIVE WrapLines(_)
WrapLines(lines) ==
    IF lines = <<>> THEN <<>>
    ELSE <<"<div>">> \o Head(lines) \o <<"</div>">> \o WrapLines(Tail(lines))

\* url.QueryEscape, token by token.
EscapeToken(t) ==
    CASE t = " " -> "+"
      [] t = "+" -> "%2B"
      [] t = "\n" -> "%0A"
      [] t = "<div>" -> "%3Cdiv%3E"
      [] t = "</div>" -> "%3C%2Fdiv%3E"
      [] OTHER -> t

QueryEscape(s) == [i \in 1..Len(s) |-> EscapeToken(s[i])]

WriteForm(message, timeSpent, entryType) ==
    [Seq |-> <<"0">>, Art_ID |-> entryType, Dauer |-> timeSpent,
     Inhalt |-> ReplaceAll(QueryEscape(WrapLines(SplitLines(message, <<>>))), "+", "%20")]

ErrWrite == "failed to write report"
ErrWriteStatus == "failed to write report: status code"

\* The remote refusing a POST: a status other than 200 and a body, which may
\* be empty.
RemoteRefusal(req) ==
    IF req.brnr % 2 = 1
    THEN [code |-> 500, body |-> "Interner Fehler"]
    ELSE [code |-> 403, body |-> ""]

\* fmt.Errorf("failed to write report: status code %d, body: %s", ...)
WriteStatusError(resp) ==
    ErrWriteStatus \o " " \o ToString(resp.code) \o ", body: " \o resp.body

\* WriteReport posting whether or not the week was resolved.
WriteReportPostsAnyway(date, message, timeSpent, entryType, netWeek, netPost, tiles, t) ==
    IF timeSpent = ZeroDuration
    THEN [err |-> "", reqs |-> <<>>]
    ELSE LET w == GetReportWeekID(date, netWeek, tiles)
             req == Post(AjaxPath, date, w.weekID, t,
                         WriteForm(message, timeSpent, entryType), netPost)
         IN  IF netPost = "transport"
             THEN [err |-> ErrWrite, reqs |-> w.reqs \o <<req>>]
             ELSE IF netPost = "status"
             THEN [err |-> WriteStatusError(RemoteRefusal(req)), reqs |-> w.reqs \o <<req>>]
             ELSE [err |-> w.err, reqs |-> w.reqs \o <<req>>]

\* WriteReport without the 00:00 guard.
WriteReportUnguarded(date, message, timeSpent, entryType, netWeek, netPost, tiles, t) ==
    LET w == GetReportWeekID(date, netWeek, tiles)
        req == Post(AjaxPath, date, w.weekID, t,
                    WriteForm(message, timeSpent, entryType), netPost)
    IN  IF w.err # "" THEN [err |-> w.err, reqs |-> w.reqs]
        ELSE [err |-> IF netPost = "ok" THEN "" ELSE ErrWrite, reqs |-> w.reqs \o <<req>>]

\* Session.WriteReport: netWeek answers the overview GET, netPost the POST.
WriteReport(date, message, timeSpent, entryType, netWeek, netPost, tiles, t) ==
    IF timeSpent = ZeroDuration
    THEN [err |-> "", reqs |-> <<>>]
    ELSE LET w == GetReportWeekID(date, netWeek, tiles)
             req == Post(AjaxPath, date, w.weekID, t,
                         WriteForm(message, timeSpent, entryType), netPost)
         IN  IF w.err # "" THEN [err |-> w.err, reqs |-> w.reqs]
             ELSE IF netPost = "transport"
             THEN [err |-> ErrWrite, reqs |-> w.reqs \o <<req>>]
             ELSE IF netPost = "status"
             THEN [err |-> WriteStatusError(RemoteRefusal(req)), reqs |-> w.reqs \o <<req>>]
             ELSE [err |-> "", reqs |-> w.reqs \o <<req>>]

(***************************************************************************)
(* Session.DeleteReport.                                                   *)
(***************************************************************************)
\* entryNumber *int: nil, or a number.
NilEntry == [nil |-> TRUE, val |-> 0]
EntryNo(n) == [nil |-> FALSE, val |-> n]

\* DeleteForm with the sequence number as it is, not negated.
DeleteFormPlainSeq(entry) ==
    [Seq |-> entry.Seq, Art_ID |-> 0, Dauer |-> entry.Duration,
     Inhalt |-> entry.Text]

DeleteForm(entry) ==
    [Seq |-> <<"-">> \o entry.Seq, Art_ID |-> 0, Dauer |-> entry.Duration,
     Inhalt |-> entry.Text]

ErrInvalidEntry == "invalid entry number"
ErrDelete == "failed to delete report"
ErrDeleteStatus == "failed to delete report: status code"

\* The deletion loop going on to the next entry after a POST that failed.
RECURSIVE DeleteLoopKeepGoing(_, _, _, _, _, _)
DeleteLoopKeepGoing(entries, i, posts, date, weekID, t) ==
    IF i > Len(entries) THEN [err |-> "", reqs |-> <<>>]
    ELSE LET req == Post(AjaxPath, date, weekID, t, DeleteForm(entries[i]), posts[i])
             rest == DeleteLoopKeepGoing(entries, i + 1, posts, date, weekID, t)
         IN  [err |-> IF posts[i] = "transport" THEN ErrDelete
                      ELSE IF posts[i] = "status" THEN ErrDeleteStatus
                      ELSE rest.err,
              reqs |-> <<req>> \o rest.reqs]

\* The deletion loop: one POST per entry, stopping at the first that fails.
\* posts[i] answers the i-th POST.
RECURSIVE DeleteLoop(_, _, _, _, _, _)
DeleteLoop(entries, i, posts, date, weekID, t) ==
    IF i > Len(entries) THEN [err |-> "", reqs |-> <<>>]
    ELSE LET req == Post(AjaxPath, date, weekID, t, DeleteForm(entries[i]), posts[i])
         IN  IF posts[i] = "transport" THEN [err |-> ErrDelete, reqs |-> <<req>>]
             ELSE IF posts[i] = "status" THEN [err |-> ErrDeleteStatus, reqs |-> <<req>>]
             ELSE LET rest == DeleteLoop(entries, i + 1, posts, date, weekID, t)
                  IN  [err |-> rest.err, reqs |-> <<req>> \o rest.reqs]

\* DeleteReport resolving the week before it looks at the entries.
DeleteReportWeekFirst(date, entryNumber, netDay, netWeek, posts, page, tiles, t) ==
    LET r == GetReport(date, FALSE, netDay, page)
        reports == r.entries
        w == GetReportWeekID(date, netWeek, tiles)
    IN  IF r.err # "" THEN [err |-> r.err, reqs |-> r.reqs]
        ELSE IF w.err # "" THEN [err |-> w.err, reqs |-> r.reqs \o w.reqs]
        ELSE IF Len(reports) = 0 THEN [err |-> "", reqs |-> r.reqs \o w.reqs]
        ELSE IF ~entryNumber.nil /\ (entryNumber.val < 1 \/ entryNumber.val > Len(reports))
        THEN [err |-> ErrInvalidEntry, reqs |-> r.reqs \o w.reqs]
        ELSE LET entriesToDelete ==
                     IF entryNumber.nil THEN reports ELSE <<reports[entryNumber.val]>>
                 d == DeleteLoop(entriesToDelete, 1, posts, date, w.weekID, t)
             IN  [err |-> d.err, reqs |-> r.reqs \o w.reqs \o d.reqs]

\* DeleteReport without the range check: an out-of-range number deletes all.
DeleteReportNoRangeCheck(date, entryNumber, netDay, netWeek, posts, page, tiles, t) ==
    LET r == GetReport(date, FALSE, netDay, page)
        reports == r.entries
        w == GetReportWeekID(date, netWeek, tiles)
    IN  IF r.err # "" THEN [err |-> r.err, reqs |-> r.reqs]
        ELSE IF Len(reports) = 0 THEN [err |-> "", reqs |-> r.reqs]
        ELSE IF w.err # "" THEN [err |-> w.err, reqs |-> r.reqs \o w.reqs]
        ELSE LET entriesToDelete ==
                     IF entryNumber.nil \/ entryNumber.val < 1
                           \/ entryNumber.val > Len(reports)
                     THEN reports
                     ELSE <<reports[entryNumber.val]>>
                 d == DeleteLoop(entriesToDelete, 1, posts, date, w.weekID, t)
             IN  [err |-> d.err, reqs |-> r.reqs \o w.reqs \o d.reqs]

\* Session.DeleteReport: netDay answers the day-page GET, netWeek the
\* overview GET, posts the deletion POSTs.
DeleteReport(date, entryNumber, netDay, netWeek, posts, page, tiles, t) ==
    LET r == GetReport(date, FALSE, netDay, page)
        reports == r.entries
        w == GetReportWeekID(date, netWeek, tiles)
    IN  IF r.err # "" THEN [err |-> r.err, reqs |-> r.reqs]
        ELSE IF Len(reports) = 0 THEN [err |-> "", reqs |-> r.reqs]
        ELSE IF w.err # "" THEN [err |-> w.err, reqs |-> r.reqs \o w.reqs]
        ELSE IF ~entryNumber.nil /\ (entryNumber.val < 1 \/ entryNumber.val > Len(reports))
        THEN [err |-> ErrInvalidEntry, reqs |-> r.reqs \o w.reqs]
        ELSE LET entriesToDelete ==
                     IF entryNumber.nil THEN reports ELSE <<reports[entryNumber.val]>>
                 d == DeleteLoop(entriesToDelete, 1, posts, date, w.weekID, t)
             IN  [err |-> d.err, reqs |-> r.reqs \o w.reqs \o d.reqs]

(***************************************************************************)
(* The remote application's report endpoint: it stores what the AJAX POST  *)
(* carries.  Seq "0" creates an entry, Seq "-<n>" removes entry n.         *)
(***************************************************************************)
SeqNumerals == <<"1", "2", "3", "4", "5", "6">>

SubjectLabel(id) ==
    CASE id = 1 -> "Betrieb"
      [] id = 2 -> "Schule"
      [] id = 3 -> "ÜBA"
      [] OTHER -> "Frei"

UnescapeToken(t) ==
    CASE t = "%20" -> " "
      [] t = "%2B" -> "+"
      [] t = "%0A" -> "\n"
      [] t = "%3Cdiv%3E" -> "<div>"
      [] t = "%3C%2Fdiv%3E" -> "</div>"
      [] OTHER -> t

Unescape(s) == [i \in 1..Len(s) |-> UnescapeToken(s[i])]

NextSeq(page) ==
    LET used == {page[i].seq : i \in 1..Len(page)}
        k == CHOOSE n \in 1..Len(SeqNumerals) :
                 /\ <<SeqNumerals[n]>> \notin used
                 /\ \A m \in 1..(n - 1) : <<SeqNumerals[m]>> \in used
    IN  <<SeqNumerals[k]>>

RemoteApply(page, req) ==
    IF req.form.Seq = <<"0">>
    THEN Append(page, Container(NextSeq(page), req.form.Dauer,
                                <<"Art: ", SubjectLabel(req.form.Art_ID)>>,
                                Unescape(req.form.Inhalt)))
    ELSE IF req.form.Seq # <<>> /\ Head(req.form.Seq) = "-"
    THEN SelectSeq(page, LAMBDA c : c.seq # Tail(req.form.Seq))
    ELSE page

\* The day pages after the remote has served the requests rs, in order.
RECURSIVE RemoteServe(_, _)
RemoteServe(pages, rs) ==
    IF rs = <<>> THEN pages
    ELSE LET r == Head(rs)
             next == IF r.method = "POST" /\ r.path = AjaxPath /\ r.outcome = "ok"
                     THEN [pages EXCEPT ![r.date] = RemoteApply(pages[r.date], r)]
                     ELSE pages
         IN  RemoteServe(next, Tail(rs))

(***************************************************************************)
(* Inputs of the report operations.                                        *)
(***************************************************************************)
ReportDates == {Date(2024, 12, 30)}

Messages == {<<"hello", "\n", "world">>}

Durations == {ZeroDuration, <<"01:30">>}

EntryTypes == {2}

\* nil, and every number from 0 to one past the n containers of the page.
EntryNumbers(n) == {NilEntry} \cup {EntryNo(k) : k \in 0..(n + 1)}

\* The entries the remote holds over all dates.
RECURSIVE TotalEntries(_, _)
TotalEntries(pages, dates) ==
    IF dates = {} THEN 0
    ELSE LET d == CHOOSE x \in dates : TRUE
         IN  Len(pages[d]) + TotalEntries(pages, dates \ {d})

\* A call's network: every request is answered "ok" but the one at step
\* f.at (0: none fails), which fails the way f.kind says; a call stops at its
\* first failure.  A GET fails by "transport" (a body that cannot be read
\* takes the same exit of these calls); a POST also by a non-200 status.
NoFailure == [at |-> 0, kind |-> "transport"]

Failures(nGet, nPost) ==
    {NoFailure}
        \cup {[at |-> i, kind |-> "transport"] : i \in 1..(nGet + nPost)}
        \cup {[at |-> i, kind |-> "status"] : i \in (nGet + 1)..(nGet + nPost)}

Net(step, f) == IF step = f.at THEN f.kind ELSE "ok"

DayShapes ==
    { [dur |-> <<"00:00">>, html |-> <<"<div>", "a", "</div>">>],
      [dur |-> <<"\n", "00:00", " ">>, html |-> <<"<div>", "a", "</div>">>],
      [dur |-> <<"01:30">>, html |-> <<"<div>", "a", "</div>">>],
      [dur |-> <<" ", "02:00">>, html |-> <<" ", "x", "<br/>", "y">>] }

\* Pages the remote can show: containers numbered in document order.
InitPages ==
    { [i \in 1..Len(sh) |->
          Container(<<SeqNumerals[i]>>, sh[i].dur, <<"\n", "Art: ", "Schule">>, sh[i].html)]
      : sh \in SeqUpTo(DayShapes, MaxEntries) }

ReportOverviews ==
    { <<GoodTile("1", "2024", 13), GoodTile("1", "2025", 11)>>,
      <<GoodTile("24", "2025", 15), GoodTile("1", "2025", 12)>>,
      <<Tile(TRUE, 0, 1, <<"1">>, 1, <<<<"KW">>, <<"1">>, <<"2025">>>>)>> }

NoLast ==
    [op |-> "none", date |-> NoDate, includeFormatting |-> FALSE, message |-> <<>>,
     timeSpent |-> <<>>, entryType |-> 0, entryNumber |-> NilEntry,
     subjectName |-> "", subjectID |-> "", username |-> "", loggedIn |-> FALSE,
     err |-> "", weekID |-> 0, entries |-> <<>>, subjects |-> <<>>]

\* The subject page of a remote that is not asked for it.
NoSubjPage == [hasDiv |-> FALSE, inputs |-> <<>>, tokens |-> <<"", "", "">>]

\* A service nobody has constructed: the operations of a Session alone.
EmptyMap == [k \in {} |-> 0]

\* A request identifier: nil, or a number.
NilID == [nil |-> TRUE, val |-> 0]
ID(n) == [nil |-> FALSE, val |-> n]

\* No line of input: what Serve holds before it has read one.
NoLine == [kind |-> "none", id |-> NilID, method |-> "", hasName |-> FALSE, name |-> "",
          hasArgs |-> FALSE, args |-> <<>>]

NoServe == [pc |-> "read", line |-> NoLine, lines |-> 0, handled |-> 0]

NoService ==
    /\ sessions = EmptyMap
    /\ defaultSessionID = ""
    /\ objs = <<>>
    /\ mu = [writer |-> 0, readers |-> {}]
    /\ calls = <<>>
    /\ uuids = 0
    /\ serve = NoServe
    /\ stdout = <<>>

(***************************************************************************)
(* The report operations as actions.                                       *)
(***************************************************************************)
GetReportWeekIDCall ==
    \E date \in WeekDates, net \in GetOutcomes :
        LET r == GetReportWeekID(date, net, overview)
        IN  /\ last' = [NoLast EXCEPT !.op = "GetReportWeekID", !.date = date,
                                      !.err = r.err, !.weekID = r.weekID]
            /\ reqs' = r.reqs
            /\ UNCHANGED <<overview, dayPages, subjPage, now, serviceVars, serverVars>>

GetReportCall ==
    \E date \in ReportDates, includeFormatting \in BOOLEAN, net \in GetOutcomes :
        LET r == GetReport(date, includeFormatting, net, dayPages[date])
        IN  /\ last' = [NoLast EXCEPT !.op = "GetReport", !.date = date,
                                      !.includeFormatting = includeFormatting,
                                      !.err = r.err, !.entries = r.entries]
            /\ reqs' = r.reqs
            /\ UNCHANGED <<overview, dayPages, subjPage, now, serviceVars, serverVars>>

WriteReportCall ==
    \E date \in ReportDates, message \in Messages, timeSpent \in Durations,
       entryType \in EntryTypes, f \in Failures(1, 1) :
      \E r \in {WriteReport(date, message, timeSpent, entryType,
                              Net(1, f), Net(2, f), overview, now)} :
            /\ TotalEntries(RemoteServe(dayPages, r.reqs), ReportDates) <= MaxEntries
            /\ last' = [NoLast EXCEPT !.op = "WriteReport", !.date = date,
                                      !.message = message, !.timeSpent = timeSpent,
                                      !.entryType = entryType, !.err = r.err]
            /\ reqs' = r.reqs
            /\ dayPages' = RemoteServe(dayPages, r.reqs)
            /\ UNCHANGED <<overview, subjPage, now, serviceVars, serverVars>>

DeleteReportCall ==
    \E date \in ReportDates :
    \E entryNumber \in EntryNumbers(Len(dayPages[date])),
       f \in Failures(2, Len(dayPages[date])) :
        LET posts == [i \in 1..MaxEntries |-> Net(i + 2, f)]
        IN \E r \in {DeleteReport(date, entryNumber, Net(1, f), Net(2, f), posts,
                                  dayPages[date], overview, now)} :
            /\ last' = [NoLast EXCEPT !.op = "DeleteReport", !.date = date,
                                      !.entryNumber = entryNumber, !.err = r.err]
            /\ reqs' = r.reqs
            /\ dayPages' = RemoteServe(dayPages, r.reqs)
            /\ UNCHANGED <<overview, subjPage, now, serviceVars, serverVars>>

InitReport ==
    /\ overview \in ReportOverviews
    /\ \E p \in InitPages :
           dayPages = [x \in ReportDates |-> IF x = Date(2024, 12, 30) THEN p ELSE <<>>]
    /\ subjPage = NoSubjPage
    /\ now = StartTime
    /\ last = NoLast
    /\ reqs = <<>>
    /\ NoService

NextReport ==
    \/ GetReportCall
    \/ WriteReportCall
    \/ DeleteReportCall

\* The report operations of one Session against a remote that stores what
\* it receives.
SpecReport == InitReport /\ [][NextReport]_vars

InitWeek ==
    /\ overview \in SeqUpTo(TileShapes, MaxTiles)
    /\ dayPages = [x \in ReportDates |-> <<>>]
    /\ subjPage = NoSubjPage
    /\ now = StartTime
    /\ last = NoLast
    /\ reqs = <<>>
    /\ NoService

NextWeek == GetReportWeekIDCall

\* Week resolution against every overview page of the model.
SpecWeek == InitWeek /\ [][NextWeek]_vars

(***************************************************************************)
(* The remote renumbering its weeks between calls: after a write or a      *)
(* delete that was stored, the overview page shows other identifiers.      *)
(***************************************************************************)
RemoteRenumber ==
    /\ last.op \in {"WriteReport", "DeleteReport"}
    /\ last.err = ""
    /\ \E i \in 1..Len(reqs) : reqs[i].method = "POST"
    /\ \E o \in ReportOverviews \ {overview} :
          overview' = o
    /\ last' = [NoLast EXCEPT !.op = "RemoteRenumber"]
    /\ reqs' = <<>>
    /\ UNCHANGED <<dayPages, subjPage, now, serviceVars, serverVars>>

InitRenumber ==
    /\ InitReport
    /\ overview = <<GoodTile("1", "2024", 13), GoodTile("1", "2025", 11)>>

NextRenumber ==
    \/ WriteReportCall
    \/ DeleteReportCall
    \/ RemoteRenumber

SpecRenumber == InitRenumber /\ [][NextRenumber]_vars

(***************************************************************************)
(* Claims about the report operations.                                     *)
(***************************************************************************)
\* The containers of a page that hold an entry: a duration other than 00:00.
RealContainers(page) == SelectSeq(page, LAMBDA c : TrimSpace(c.dur) # ZeroDuration)

IsDeletionPost(r) ==
    r.method = "POST" /\ r.path = AjaxPath /\ r.form.Seq # <<>> /\ Head(r.form.Seq) = "-"

NoDeletionPost(rs) == \A i \in 1..Len(rs) : ~IsDeletionPost(rs[i])

AllAnswered(rs) == \A i \in 1..Len(rs) : rs[i].outcome = "ok"

\* C1: a WriteReport call with duration exactly "00:00" returns success,
\* issues no request at all and leaves the remote state as it was.
C1_WriteZeroIsNoOp ==
    [][(last'.op = "WriteReport" /\ last'.timeSpent = ZeroDuration)
          => (last'.err = "" /\ reqs' = <<>> /\ UNCHANGED reportVars)]_vars

C1_Witness ==
    /\ last.op = "WriteReport"
    /\ last.timeSpent = ZeroDuration
    /\ last.err = ""
    /\ reqs = <<>>
    /\ dayPages[last.date] # <<>>

\* C2: whenever GetReport succeeds, in either formatting mode, no returned
\* entry has duration "00:00", and the returned entries are exactly the
\* containers of the day page whose duration is not "00:00", in page order.
C2_GetReportFiltersZero ==
    (last.op = "GetReport" /\ last.err = "") =>
        LET kept == RealContainers(dayPages[last.date])
        IN  /\ \A i \in 1..Len(last.entries) : last.entries[i].Duration # ZeroDuration
            /\ Len(last.entries) = Len(kept)
            /\ \A i \in 1..Len(kept) :
                   /\ last.entries[i].Seq = kept[i].seq
                   /\ last.entries[i].Duration = TrimSpace(kept[i].dur)

C2_Witness ==
    /\ last.op = "GetReport"
    /\ last.err = ""
    /\ last.includeFormatting
    /\ Len(last.entries) = 1
    /\ Len(dayPages[last.date]) = 2
    /\ dayPages[last.date][1].dur = ZeroDuration

OutOfRange(entryNumber, n) ==
    ~entryNumber.nil /\ (entryNumber.val < 1 \/ entryNumber.val > n)

IsoOf(date) ==
    CASE date = Date(2024, 12, 30) -> [year |-> 2025, week |-> 1]
      [] date = Date(2021, 1, 3) -> [year |-> 2020, week |-> 53]
      [] date = Date(2025, 6, 11) -> [year |-> 2025, week |-> 24]
      [] date = Date(2025, 1, 5) -> [year |-> 2025, week |-> 1]

\* Tile t shows calendar week `week` of year `year`.
TileShows(t, week, year) ==
    /\ t.nSKW > 0
    /\ t.nKW > 0
    /\ Len(t.yearDivs) >= 3
    /\ Atoi(TrimSpace(t.kwText)) = [ok |-> TRUE, val |-> week]
    /\ Atoi(TrimSpace(t.yearDivs[3])) = [ok |-> TRUE, val |-> year]

\* The tiles showing the ISO week of the date, that carry an identifier.
Matching(tiles, date) ==
    {i \in 1..Len(tiles) :
        /\ TileShows(tiles[i], IsoOf(date).week, IsoOf(date).year)
        /\ tiles[i].hasOnclick
        /\ tiles[i].nr # 0}

\* C4: a successful GetReportWeekID returns the identifier of a tile that
\* shows the ISO (week, year) of the date, never that of a tile showing
\* another week or year; when the page was fetched and no tile shows that
\* (week, year), it fails with the not-found error.
C4_WeekIDOfMatchingTile ==
    (last.op = "GetReportWeekID") =>
        /\ (last.err = "") =>
              /\ \E i \in Matching(overview, last.date) : overview[i].nr = last.weekID
              /\ \A i \in 1..Len(overview) :
                     (overview[i].hasOnclick /\ overview[i].nr = last.weekID)
                         => TileShows(overview[i], IsoOf(last.date).week,
                                      IsoOf(last.date).year)
        /\ (/\ AllAnswered(reqs)
            /\ \A i \in 1..Len(overview) :
                   ~TileShows(overview[i], IsoOf(last.date).week, IsoOf(last.date).year))
              => last.err = ErrNoWeek

C4_Witness ==
    /\ last.op = "GetReportWeekID"
    /\ last.date = Date(2024, 12, 30)
    /\ last.err = ""
    /\ last.weekID = 11
    /\ overview = <<GoodTile("1", "2024", 13), GoodTile("1", "2025", 11)>>

\* C5 as stated: when several tiles match, a successful GetReportWeekID
\* returns the identifier of the first matching tile in document order.
C5_FirstMatchingTile ==
    (last.op = "GetReportWeekID" /\ last.err = "") =>
        \A i \in Matching(overview, last.date) :
            (\A j \in Matching(overview, last.date) : i <= j)
                => last.weekID = overview[i].nr

(***************************************************************************)
(* The subject page and Session.GetSubjects, AddSubject, DeleteSubject.    *)
(* The page is whether it has an element #divSchulfach, its input elements *)
(* in document order, and the values of the three hidden token fields ("": *)
(* the field is missing).  An input is its id attribute as tokens (<<>>:   *)
(* none), its data-default and value attributes and whether it lies inside *)
(* #divSchulfach.                                                          *)
(***************************************************************************)
SubjectPath == "/Azubi/SetupSchulfach.aspx"

FieldPrefix == "ctl00_ContentPlaceHolder1_txt"

Input(id, hasDefault, default, hasValue, value, inDiv) ==
    [id |-> id, hasDefault |-> hasDefault, default |-> default,
     hasValue |-> hasValue, value |-> value, inDiv |-> inDiv]

Subject(id, name) == [ID |-> id, Name |-> name]

BuiltinSubjects ==
    << Subject("1", "Betrieb"), Subject("2", "Schule"), Subject("3", "ÜBA"),
       Subject("4", "Urlaub"), Subject("5", "Feiertag"),
       Subject("6", "Arbeitsunfähig"), Subject("7", "Frei") >>

\* The decimal numerals of the model: what \d+ matches as a whole token.
NumeralTokens ==
    {ToString(n) : n \in 1..7}
        \cup {ToString(n) : n \in (StartTime - 2)..(StartTime + MaxTicks)}

\* sel.Attr("value"): "" when the attribute is missing.
ValueAttr(i) == IF i.hasValue THEN i.value ELSE ""

\* input[id^='ctl00_ContentPlaceHolder1_txt']
HasFieldPrefix(i) == i.id # <<>> /\ i.id[1] = FieldPrefix

\* regexp `txt(\d+)` on the id of such an input: the digits after "txt".
TxtDigits(i) ==
    IF Len(i.id) >= 2 /\ i.id[2] \in NumeralTokens
    THEN [ok |-> TRUE, digits |-> i.id[2]]
    ELSE [ok |-> FALSE, digits |-> ""]

ErrGetSubjects == "failed to get subjects page"
ErrParseSubjects == "failed to parse subjects page"
ErrAddSubject == "failed to add subject"
ErrAddSubjectStatus == "failed to add subject: status code"
ErrDeleteSubject == "failed to delete subject"
ErrDeleteSubjectStatus == "failed to delete subject: status code"

\* The subjects GetSubjects appends for the inputs of #divSchulfach.
CustomSubjects(page) ==
    IF page.hasDiv
    THEN LET shown == SelectSeq(page.inputs,
                          LAMBDA i : /\ i.inDiv
                                     /\ i.hasDefault
                                     /\ i.hasValue
                                     /\ i.value # "")
         IN  [k \in 1..Len(shown) |-> Subject(shown[k].default, shown[k].value)]
    ELSE <<>>

GetSubjectsCustomFirst(net, page) ==
    LET req == Get(SubjectPath, NoDate, net)
    IN  IF net = "transport"
        THEN [subjects |-> <<>>, err |-> ErrGetSubjects, reqs |-> <<req>>]
        ELSE IF net = "read"
        THEN [subjects |-> <<>>, err |-> ErrParseSubjects, reqs |-> <<req>>]
        ELSE [subjects |-> CustomSubjects(page) \o BuiltinSubjects, err |-> "",
              reqs |-> <<req>>]

\* Session.GetSubjects
GetSubjects(net, page) ==
    LET req == Get(SubjectPath, NoDate, net)
    IN  IF net = "transport"
        THEN [subjects |-> <<>>, err |-> ErrGetSubjects, reqs |-> <<req>>]
        ELSE IF net = "read"
        THEN [subjects |-> <<>>, err |-> ErrParseSubjects, reqs |-> <<req>>]
        ELSE [subjects |-> BuiltinSubjects \o CustomSubjects(page), err |-> "",
              reqs |-> <<req>>]

\* A form is url.Values: a function from field names to values, names and
\* values as tokens.  formData.Set replaces the value of a name.
SetField(form, name, value) == (name :> value) @@ form

HiddenDeleteIDs == <<"ctl00$ContentPlaceHolder1$HiddenLöschIDs">>

SaveField == <<"ctl00$ContentPlaceHolder1$cmd_Save">>

TokenFields(page) ==
    (<<"__VIEWSTATE">> :> <<page.tokens[1]>>)
        @@ (<<"__VIEWSTATEGENERATOR">> :> <<page.tokens[2]>>)
        @@ (<<"__EVENTVALIDATION">> :> <<page.tokens[3]>>)

\* The Each loop of AddSubject with the filter of DeleteSubject's loop: only
\* inputs whose id holds txt<digits> are carried.
RECURSIVE CarryAllNumbered(_, _)
CarryAllNumbered(inputs, form) ==
    IF inputs = <<>> THEN form
    ELSE LET i == Head(inputs)
         IN  CarryAllNumbered(Tail(inputs),
                              IF HasFieldPrefix(i) /\ TxtDigits(i).ok /\ ValueAttr(i) # ""
                              THEN SetField(form, i.id, <<ValueAttr(i)>>)
                              ELSE form)

\* The Each loop of AddSubject: every input whose id starts with the field
\* prefix and whose value is not empty is set under its id.
RECURSIVE CarryAll(_, _)
CarryAll(inputs, form) ==
    IF inputs = <<>> THEN form
    ELSE LET i == Head(inputs)
         IN  CarryAll(Tail(inputs),
                      IF HasFieldPrefix(i) /\ ValueAttr(i) # ""
                      THEN SetField(form, i.id, <<ValueAttr(i)>>)
                      ELSE form)

\* The Each loop of DeleteSubject: as above, but only inputs whose id holds
\* txt<digits> with digits other than subjectID.
RECURSIVE CarryExcept(_, _, _)
CarryExcept(inputs, subjectID, form) ==
    IF inputs = <<>> THEN form
    ELSE LET i == Head(inputs)
             m == TxtDigits(i)
         IN  CarryExcept(Tail(inputs), subjectID,
                         IF /\ HasFieldPrefix(i)
                            /\ m.ok
                            /\ m.digits # subjectID
                            /\ ValueAttr(i) # ""
                         THEN SetField(form, i.id, <<ValueAttr(i)>>)
                         ELSE form)

SubjectCall(netGet, netPost, form, errPost, errStatus) ==
    LET get == Get(SubjectPath, NoDate, netGet)
        post == Post(SubjectPath, NoDate, 0, 0, form, netPost)
    IN  IF netGet = "transport" THEN [err |-> ErrGetSubjects, reqs |-> <<get>>]
        ELSE IF netGet = "read" THEN [err |-> ErrParseSubjects, reqs |-> <<get>>]
        ELSE IF netPost = "transport" THEN [err |-> errPost, reqs |-> <<get, post>>]
        ELSE IF netPost = "status" THEN [err |-> errStatus, reqs |-> <<get, post>>]
        ELSE [err |-> "", reqs |-> <<get, post>>]

AddSubjectCarryOnly(subjectName, netGet, netPost, page, t) ==
    SubjectCall(netGet, netPost,
                CarryAll(page.inputs, SetField(TokenFields(page), SaveField, <<"Speichern">>)),
                ErrAddSubject, ErrAddSubjectStatus)

\* Session.AddSubject, at clock value t
AddSubject(subjectName, netGet, netPost, page, t) ==
    LET base == SetField(TokenFields(page), SaveField, <<"Speichern">>)
        carried == CarryAll(page.inputs, base)
        form == SetField(carried, <<"txt", ToString(t)>>, <<subjectName>>)
    IN  SubjectCall(netGet, netPost, form, ErrAddSubject, ErrAddSubjectStatus)

\* DeleteSubject carrying every field, the one to delete included.
DeleteSubjectCarryAll(subjectID, netGet, netPost, page) ==
    LET base == SetField(SetField(TokenFields(page), HiddenDeleteIDs,
                                  <<",", subjectID>>),
                         SaveField, <<"Speichern">>)
        form == CarryAll(page.inputs, base)
    IN  SubjectCall(netGet, netPost, form, ErrDeleteSubject, ErrDeleteSubjectStatus)

\* Session.DeleteSubject
DeleteSubject(subjectID, netGet, netPost, page) ==
    LET base == SetField(SetField(TokenFields(page), HiddenDeleteIDs,
                                  <<",", subjectID>>),
                         SaveField, <<"Speichern">>)
        form == CarryExcept(page.inputs, subjectID, base)
    IN  SubjectCall(netGet, netPost, form, ErrDeleteSubject, ErrDeleteSubjectStatus)

(***************************************************************************)
(* The remote application's subject form: it keeps the subject fields the  *)
(* form carries, under the values the form gives them, removes the         *)
(* subjects the deletion marker lists, creates a subject for a field       *)
(* txt<id>, and shows every subject as a well-formed input of              *)
(* #divSchulfach.                                                          *)
(***************************************************************************)
RenderSubject(id, name) == Input(<<FieldPrefix, id>>, TRUE, id, TRUE, name, TRUE)

RemoteSubjectPost(page, form) ==
    LET marked == IF HiddenDeleteIDs \in DOMAIN form
                  THEN {form[HiddenDeleteIDs][2]}
                  ELSE {}
        stays(i) == \/ ~HasFieldPrefix(i)
                    \/ (i.id \in DOMAIN form /\ i.id[2] \notin marked)
        kept == SelectSeq(page.inputs, stays)
        shown == [k \in 1..Len(kept) |->
                     IF HasFieldPrefix(kept[k])
                     THEN RenderSubject(kept[k].id[2], form[kept[k].id][1])
                     ELSE kept[k]]
        news == {n \in DOMAIN form : n[1] = "txt"}
        added == IF news = {} THEN <<>>
                 ELSE LET n == CHOOSE x \in news : TRUE
                      IN  <<RenderSubject(n[2], form[n][1])>>
    IN  [hasDiv |-> TRUE, inputs |-> shown \o added, tokens |-> page.tokens]

\* The subject page after the remote has served the requests rs, in order.
RECURSIVE RemoteSubjectServe(_, _)
RemoteSubjectServe(page, rs) ==
    IF rs = <<>> THEN page
    ELSE LET r == Head(rs)
             next == IF r.method = "POST" /\ r.path = SubjectPath /\ r.outcome = "ok"
                     THEN RemoteSubjectPost(page, r.form)
                     ELSE page
         IN  RemoteSubjectServe(next, Tail(rs))

(***************************************************************************)
(* Inputs of the subject operations.                                       *)
(***************************************************************************)
AllTokens == <<"vs", "vsg", "ev">>

\* Inputs a subject page can hold: two subjects shown as the remote shows
\* them, the empty box for a new subject, a subject without data-default, a
\* subject whose id holds no digits, a subject outside #divSchulfach, an
\* input without value, and an input that is no subject field.
InputShapes ==
    { RenderSubject(ToString(StartTime - 1), "Sport"),
      RenderSubject(ToString(StartTime - 2), "Kunst"),
      Input(<<FieldPrefix, "Neu">>, TRUE, "0", TRUE, "", TRUE),
      Input(<<FieldPrefix, ToString(StartTime - 2)>>, FALSE, "", TRUE, "Musik", TRUE),
      RenderSubject("Abc", "Werken"),
      Input(<<FieldPrefix, ToString(StartTime - 1)>>, TRUE, ToString(StartTime - 1),
            TRUE, "Extern", FALSE),
      Input(<<FieldPrefix, ToString(StartTime - 1)>>, TRUE, ToString(StartTime - 1),
            FALSE, "", TRUE),
      Input(<<"suche">>, TRUE, "9", TRUE, "Suche", TRUE) }

\* Every subject page of the model.
SubjectPages ==
    { [hasDiv |-> d, inputs |-> is, tokens |-> AllTokens]
      : d \in BOOLEAN, is \in SeqUpTo(InputShapes, MaxInputs) }

\* Pages as the remote shows them.
ShownPages ==
    { [hasDiv |-> TRUE, inputs |-> <<>>, tokens |-> AllTokens],
      [hasDiv |-> TRUE,
       inputs |-> << RenderSubject(ToString(StartTime - 1), "Sport"),
                     Input(<<FieldPrefix, "Neu">>, TRUE, "0", TRUE, "", TRUE) >>,
       tokens |-> <<"vs", "vsg", "">>],
      [hasDiv |-> TRUE,
       inputs |-> << RenderSubject("Abc", "Werken") >>,
       tokens |-> AllTokens] }

SubjectNames == {"", "Mathe"}

SubjectIDs ==
    {"1", "Abc"} \cup {ToString(n) : n \in (StartTime - 1)..(StartTime + MaxTicks)}

SubjectFailures == Failures(1, 1) \cup {[at |-> 1, kind |-> "read"]}

(***************************************************************************)
(* The subject operations as actions.                                      *)
(***************************************************************************)
GetSubjectsCall ==
    \E net \in GetOutcomes :
        LET r == GetSubjects(net, subjPage)
        IN  /\ last' = [NoLast EXCEPT !.op = "GetSubjects", !.err = r.err,
                                      !.subjects = r.subjects]
            /\ reqs' = r.reqs
            /\ UNCHANGED <<overview, dayPages, subjPage, now, serviceVars, serverVars>>

AddSubjectCall ==
    \E subjectName \in SubjectNames, f \in SubjectFailures :
      \E r \in {AddSubject(subjectName, Net(1, f), Net(2, f), subjPage, now)} :
            /\ Len(RemoteSubjectServe(subjPage, r.reqs).inputs) <= MaxInputs
            /\ last' = [NoLast EXCEPT !.op = "AddSubject",
                                      !.subjectName = subjectName, !.err = r.err]
            /\ reqs' = r.reqs
            /\ subjPage' = RemoteSubjectServe(subjPage, r.reqs)
            /\ UNCHANGED <<overview, dayPages, now, serviceVars, serverVars>>

DeleteSubjectCall ==
    \E subjectID \in SubjectIDs, f \in SubjectFailures :
      \E r \in {DeleteSubject(subjectID, Net(1, f), Net(2, f), subjPage)} :
            /\ last' = [NoLast EXCEPT !.op = "DeleteSubject",
                                      !.subjectID = subjectID, !.err = r.err]
            /\ reqs' = r.reqs
            /\ subjPage' = RemoteSubjectServe(subjPage, r.reqs)
            /\ UNCHANGED <<overview, dayPages, now, serviceVars, serverVars>>

\* A second passes.
Tick ==
    /\ now < StartTime + MaxTicks
    /\ now' = now + 1
    /\ UNCHANGED <<overview, dayPages, subjPage, last, reqs, serviceVars, serverVars>>

InitSubjects ==
    /\ overview = <<>>
    /\ dayPages = [x \in ReportDates |-> <<>>]
    /\ subjPage \in ShownPages
    /\ now = StartTime
    /\ last = NoLast
    /\ reqs = <<>>
    /\ NoService

NextSubjects ==
    \/ GetSubjectsCall
    \/ AddSubjectCall
    \/ DeleteSubjectCall
    \/ Tick

\* The subject operations of one Session against a remote that applies the
\* form posts it receives.
SpecSubjects == InitSubjects /\ [][NextSubjects]_vars

InitSubjectPage ==
    /\ overview = <<>>
    /\ dayPages = [x \in ReportDates |-> <<>>]
    /\ subjPage \in SubjectPages
    /\ now = StartTime
    /\ last = NoLast
    /\ reqs = <<>>
    /\ NoService

NextSubjectPage == GetSubjectsCall

\* GetSubjects against every subject page of the model.
SpecSubjectPage == InitSubjectPage /\ [][NextSubjectPage]_vars

\* AddSubject and DeleteSubject against every subject page of the model
\* that gives each of its inputs an id of its own.
InitSubjectForms ==
    /\ InitSubjectPage
    /\ \A j, k \in 1..Len(subjPage.inputs) :
          subjPage.inputs[j].id = subjPage.inputs[k].id => j = k

NextSubjectForms ==
    \/ AddSubjectCall
    \/ DeleteSubjectCall

SpecSubjectForms == InitSubjectForms /\ [][NextSubjectForms]_vars

(***************************************************************************)
(* Claims about the subject operations.                                    *)
(***************************************************************************)
SubjectSet(ss) == {ss[k] : k \in 1..Len(ss)}

BuiltinIDs == {"1", "2", "3", "4", "5", "6", "7"}

\* C6 as stated: against a remote that applies subject form posts, a
\* successful AddSubject(name) followed by a successful GetSubjects returns a
\* list containing a subject named name; a successful DeleteSubject on the id
\* of a custom subject followed by a successful GetSubjects returns a list
\* without a subject of that id; every successful GetSubjects returns the
\* seven built-in subjects.
C6_AddThenListed ==
    [][(last'.op = "GetSubjects" /\ last'.err = "")
          => /\ (last.op = "AddSubject" /\ last.err = "")
                    => \E x \in SubjectSet(last'.subjects) : x.Name = last.subjectName
             /\ (last.op = "DeleteSubject" /\ last.err = ""
                     /\ last.subjectID \notin BuiltinIDs)
                    => \A x \in SubjectSet(last'.subjects) : x.ID # last.subjectID
             /\ \A k \in 1..7 : BuiltinSubjects[k] \in SubjectSet(last'.subjects)]_vars

\* C6 as amended: the same, for an AddSubject(name) with a name that is not
\* empty.
C6_AddNonEmptyThenListed ==
    [][(last'.op = "GetSubjects" /\ last'.err = "")
          => /\ (last.op = "AddSubject" /\ last.err = "" /\ last.subjectName # "")
                    => \E x \in SubjectSet(last'.subjects) : x.Name = last.subjectName
             /\ (last.op = "DeleteSubject" /\ last.err = ""
                     /\ last.subjectID \notin BuiltinIDs)
                    => \A x \in SubjectSet(last'.subjects) : x.ID # last.subjectID
             /\ \A k \in 1..7 : BuiltinSubjects[k] \in SubjectSet(last'.subjects)]_vars

C6_Witness ==
    /\ last.op = "GetSubjects"
    /\ last.err = ""
    /\ Subject(ToString(StartTime), "Mathe") \in SubjectSet(last.subjects)
    /\ Subject(ToString(StartTime - 1), "Sport") \in SubjectSet(last.subjects)

\* The inputs of the page that GetSubjects shows as custom subjects.
ShownInputs(page) ==
    {k \in 1..Len(page.inputs) :
        /\ page.hasDiv
        /\ page.inputs[k].inDiv
        /\ page.inputs[k].hasDefault
        /\ page.inputs[k].hasValue
        /\ page.inputs[k].value # ""}

\* C7: a successful GetSubjects returns the seven built-in subjects first,
\* with ids "1" to "7" in order, then one subject per custom input of
\* #divSchulfach in page order, also when the page has no #divSchulfach; the
\* call fails exactly when the page was not fetched or not read.
C7_BuiltinsThenCustoms ==
    (last.op = "GetSubjects") =>
        /\ (last.err = "") <=> AllAnswered(reqs)
        /\ (last.err = "") =>
              LET idx == ShownInputs(subjPage)
                  pos(k) == 7 + Cardinality({j \in idx : j <= k})
              IN  /\ Len(last.subjects) = 7 + Cardinality(idx)
                  /\ <<last.subjects[1].ID, last.subjects[2].ID, last.subjects[3].ID,
                       last.subjects[4].ID, last.subjects[5].ID, last.subjects[6].ID,
                       last.subjects[7].ID>> = <<"1", "2", "3", "4", "5", "6", "7">>
                  /\ <<last.subjects[1].Name, last.subjects[2].Name,
                       last.subjects[3].Name, last.subjects[4].Name,
                       last.subjects[5].Name, last.subjects[6].Name,
                       last.subjects[7].Name>>
                         = <<"Betrieb", "Schule", "ÜBA", "Urlaub", "Feiertag",
                             "Arbeitsunfähig", "Frei">>
                  /\ \A k \in idx :
                         /\ last.subjects[pos(k)].ID = subjPage.inputs[k].default
                         /\ last.subjects[pos(k)].Name = subjPage.inputs[k].value

C7_Witness ==
    /\ last.op = "GetSubjects"
    /\ last.err = ""
    /\ Len(last.subjects) = 9
    /\ last.subjects[8].Name = "Kunst"
    /\ last.subjects[9].Name = "Sport"

\* The inputs of a page that are custom-subject fields: their id starts
\* with the field prefix.
SubjectFields(page) == {k \in 1..Len(page.inputs) : HasFieldPrefix(page.inputs[k])}

\* The id of this input has the txt<digits> form, and these are the digits.
HasSuffix(i, digits) ==
    /\ Len(i.id) >= 2
    /\ i.id[2] \in NumeralTokens
    /\ i.id[2] = digits

\* The id of this input has the txt<digits> form.
Numbered(i) == \E d \in NumeralTokens : HasSuffix(i, d)

\* The names of the fields every resubmitted subject form starts from.
FixedFields == {<<"__VIEWSTATE">>, <<"__VIEWSTATEGENERATOR">>, <<"__EVENTVALIDATION">>,
                SaveField}

\* C25: the form a DeleteSubject(id) call posts holds no field of an input
\* whose numeric suffix equals id, holds the deletion marker naming id, holds
\* every other custom-subject field whose id has the txt<digits> form and
\* whose value is not empty, with that value, and holds no field of an input
\* whose id lacks the txt<digits> form: beside the token fields and the save
\* button it holds nothing else.  (A step that leaves the clock alone is a
\* call.)
C25_DeleteFormOmitsTarget ==
    [][(last'.op = "DeleteSubject" /\ now' = now /\ Len(reqs') = 2)
          => LET form == reqs'[2].form
                 id == last'.subjectID
                 fields == {subjPage.inputs[k] : k \in SubjectFields(subjPage)}
                 kept == {i \in fields : Numbered(i) /\ ~HasSuffix(i, id) /\ ValueAttr(i) # ""}
             IN  /\ \A i \in fields : HasSuffix(i, id) => i.id \notin DOMAIN form
                 /\ HiddenDeleteIDs \in DOMAIN form
                 /\ form[HiddenDeleteIDs] = <<",", id>>
                 /\ \A i \in kept : i.id \in DOMAIN form /\ form[i.id] = <<i.value>>
                 /\ \A i \in fields : ~Numbered(i) => i.id \notin DOMAIN form
                 /\ DOMAIN form = FixedFields \cup {HiddenDeleteIDs}
                                     \cup {i.id : i \in kept}]_vars

\* The other subject is carried, the one to delete is not.
C25_Witness ==
    /\ last.op = "DeleteSubject"
    /\ last.subjectID = ToString(StartTime - 1)
    /\ last.err = ""
    /\ Len(reqs) = 2
    /\ <<FieldPrefix, ToString(StartTime - 2)>> \in DOMAIN reqs[2].form
    /\ reqs[2].form[<<FieldPrefix, ToString(StartTime - 2)>>] = <<"Kunst">>
    /\ <<FieldPrefix, ToString(StartTime - 1)>> \notin DOMAIN reqs[2].form
    /\ Len(subjPage.inputs) = 1
    /\ subjPage.inputs[1].value = "Kunst"

\* A field without digits is dropped by the resubmission.
C25_WitnessDropped ==
    /\ last.op = "DeleteSubject"
    /\ last.err = ""
    /\ Len(reqs) = 2
    /\ <<FieldPrefix, "Abc">> \notin DOMAIN reqs[2].form
    /\ subjPage.inputs = <<>>

\* C26: the form an AddSubject(name) call posts holds every custom-subject
\* field of the page it fetched that has a value, with that value, and
\* exactly one new field, named txt<Unix time of the call>, that holds name;
\* beside the token fields and the save button it holds nothing else.  A
\* remote that applies the form shows every custom subject it showed before
\* the call, unaltered.
C26_AddFormCarriesAll ==
    [][(last'.op = "AddSubject" /\ now' = now /\ Len(reqs') = 2)
          => LET form == reqs'[2].form
                 fields == {subjPage.inputs[k] : k \in SubjectFields(subjPage)}
                 kept == {i \in fields : ValueAttr(i) # ""}
                 new == <<"txt", ToString(now)>>
             IN  /\ \A i \in kept : i.id \in DOMAIN form /\ form[i.id] = <<i.value>>
                 /\ new \in DOMAIN form
                 /\ form[new] = <<last'.subjectName>>
                 /\ DOMAIN form = FixedFields \cup {i.id : i \in kept} \cup {new}
                 /\ \A x \in SubjectSet(CustomSubjects(subjPage)) :
                       x \in SubjectSet(CustomSubjects(subjPage'))]_vars

\* A subject is added to a page that shows a subject whose id has no digits.
C26_Witness ==
    /\ last.op = "AddSubject"
    /\ last.subjectName = "Mathe"
    /\ last.err = ""
    /\ Len(reqs) = 2
    /\ <<FieldPrefix, "Abc">> \in DOMAIN reqs[2].form
    /\ reqs[2].form[<<FieldPrefix, "Abc">>] = <<"Werken">>
    /\ <<"txt", ToString(now)>> \in DOMAIN reqs[2].form
    /\ reqs[2].form[<<"txt", ToString(now)>>] = <<"Mathe">>
    /\ Len(subjPage.inputs) = 2
    /\ subjPage.inputs[1].value = "Werken"
    /\ subjPage.inputs[2].value = "Mathe"

\* The fields of a form that name a new subject: txt<timestamp>.
NewFields(form) == {n \in DOMAIN form : n[1] = "txt"}

\* The identifiers of the custom-subject fields a page shows.
ShownSuffixes(page) ==
    {page.inputs[k].id[2] : k \in {j \in SubjectFields(page) : Len(page.inputs[j].id) >= 2}}

\* C31 as stated: the field name txt<timestamp> an AddSubject call injects
\* differs from the one every earlier AddSubject call on the account
\* injected, also when both calls fall in one clock second: it differs from
\* the field name of the successful AddSubject call before it, and its
\* timestamp is not the identifier of a subject the fetched page shows.
C31_FreshFieldNames ==
    [][(last'.op = "AddSubject" /\ now' = now /\ Len(reqs') = 2)
          => /\ (last.op = "AddSubject" /\ last.err = "" /\ Len(reqs) = 2)
                   => NewFields(reqs'[2].form) \cap NewFields(reqs[2].form) = {}
             /\ \A n \in NewFields(reqs'[2].form) :
                   n[2] \notin ShownSuffixes(subjPage)]_vars

\* Calls in different seconds do inject different names: two subjects added
\* a second apart stand on the page under their two timestamps.
C31_DistinctAcrossSeconds ==
    /\ last.op = "AddSubject"
    /\ last.err = ""
    /\ now = StartTime + 1
    /\ Len(subjPage.inputs) = 2
    /\ subjPage.inputs[1].id = <<FieldPrefix, ToString(StartTime)>>
    /\ subjPage.inputs[2].id = <<FieldPrefix, ToString(StartTime + 1)>>

(***************************************************************************)
(* Session.IsLoggedIn, Login and Logout.  A response body is a sequence of *)
(* tokens; the logout marker id="Abmelden" is the two tokens below, and    *)
(* strings.Contains looks for them side by side.  A cookie jar is the user *)
(* the remote has set a session cookie for ("": none).                     *)
(***************************************************************************)
LoginPath == "/Login.aspx"
LogoutPath == "/Azubi/Abmelden.aspx"
ProbePath == "/Azubi/Default.aspx"

Marker == <<"id=", "\"Abmelden\"">>

\* strings.Contains
Contains(s, sub) ==
    \E i \in 0..(Len(s) - Len(sub)) : SubSeq(s, i + 1, i + Len(sub)) = sub

GetBody(path, outcome, body) ==
    [Get(path, NoDate, outcome) EXCEPT !.body = IF outcome = "transport" THEN <<>> ELSE body]

IsLoggedInOptimistic(net, body) ==
    [loggedIn |-> net # "ok" \/ Contains(body, Marker),
     reqs |-> <<GetBody(ProbePath, net, body)>>]

\* Session.IsLoggedIn, the remote answering the probe with body
IsLoggedIn(net, body) ==
    LET req == GetBody(ProbePath, net, body)
    IN  IF net = "transport" THEN [loggedIn |-> FALSE, reqs |-> <<req>>]
        ELSE IF net = "read" THEN [loggedIn |-> FALSE, reqs |-> <<req>>]
        ELSE [loggedIn |-> Contains(body, Marker), reqs |-> <<req>>]

ErrLoginPage == "failed to get login page"
ErrLoginParse == "failed to parse login page"
ErrLoginSubmit == "failed to submit login"
ErrLoginInvalid == "login failed: invalid credentials"
ErrLogout == "failed to logout"

LoginForm(tokens, username, password) ==
    (<<"__VIEWSTATE">> :> <<tokens[1]>>)
        @@ (<<"__VIEWSTATEGENERATOR">> :> <<tokens[2]>>)
        @@ (<<"__EVENTVALIDATION">> :> <<tokens[3]>>)
        @@ (<<"ctl00$ContentPlaceHolder1$txt_Benutzername">> :> <<username>>)
        @@ (<<"ctl00$ContentPlaceHolder1$txt_Passwort">> :> <<password>>)
        @@ (<<"ctl00$ContentPlaceHolder1$chk_Persistent">> :> <<"on">>)
        @@ (<<"ctl00$ContentPlaceHolder1$cmd_Login">> :> <<"Anmelden">>)
        @@ (<<"ctl00$ContentPlaceHolder1$HiddenField_isMobile">> :> <<"false">>)

(***************************************************************************)
(* The remote application's login: it sets the session cookie of a user    *)
(* whose password the form carries, and its start page carries the logout  *)
(* marker for a request with a session cookie.                             *)
(***************************************************************************)
Accounts == [u1 |-> "p1", u2 |-> "p2"]

RemoteLogin(jar, form) ==
    LET username == form[<<"ctl00$ContentPlaceHolder1$txt_Benutzername">>][1]
        password == form[<<"ctl00$ContentPlaceHolder1$txt_Passwort">>][1]
    IN  IF username \in DOMAIN Accounts /\ Accounts[username] = password
        THEN username
        ELSE jar

RemoteProbeBody(jar) ==
    IF jar # ""
    THEN <<"<a ", "id=", "\"Abmelden\"", ">">>
    ELSE <<"<form ", "id=", "\"form1\"", ">", "Abmelden">>

SessionLoginUnprobed(username, password, netGet, netPost, netProbe, tokens, jar) ==
    LET get == Get(LoginPath, NoDate, netGet)
        form == LoginForm(tokens, username, password)
        post == Post(LoginPath, NoDate, 0, 0, form, netPost)
        jar1 == RemoteLogin(jar, form)
        probe == IsLoggedIn(netProbe, RemoteProbeBody(jar1))
    IN  IF netGet = "transport"
        THEN [err |-> ErrLoginPage, reqs |-> <<get>>, jar |-> jar]
        ELSE IF netGet = "read"
        THEN [err |-> ErrLoginParse, reqs |-> <<get>>, jar |-> jar]
        ELSE IF netPost = "transport"
        THEN [err |-> ErrLoginSubmit, reqs |-> <<get, post>>, jar |-> jar]
        ELSE [err |-> "", reqs |-> <<get, post>> \o probe.reqs, jar |-> jar1]

\* Session.Login on a Session whose cookie jar is jar; tokens are the hidden
\* fields of the login page.  Whatever the status of the POST's response,
\* the probe decides.
SessionLogin(username, password, netGet, netPost, netProbe, tokens, jar) ==
    LET get == Get(LoginPath, NoDate, netGet)
        form == LoginForm(tokens, username, password)
        post == Post(LoginPath, NoDate, 0, 0, form, netPost)
        jar1 == RemoteLogin(jar, form)
        probe == IsLoggedIn(netProbe, RemoteProbeBody(jar1))
    IN  IF netGet = "transport"
        THEN [err |-> ErrLoginPage, reqs |-> <<get>>, jar |-> jar]
        ELSE IF netGet = "read"
        THEN [err |-> ErrLoginParse, reqs |-> <<get>>, jar |-> jar]
        ELSE IF netPost = "transport"
        THEN [err |-> ErrLoginSubmit, reqs |-> <<get, post>>, jar |-> jar]
        ELSE IF ~probe.loggedIn
        THEN [err |-> ErrLoginInvalid, reqs |-> <<get, post>> \o probe.reqs, jar |-> jar1]
        ELSE [err |-> "", reqs |-> <<get, post>> \o probe.reqs, jar |-> jar1]

\* Session.Logout that tries once more after a transport failure.
SessionLogoutRetry(net, jar) ==
    LET get == Get(LogoutPath, NoDate, net)
    IN  IF net = "transport"
        THEN [err |-> ErrLogout, reqs |-> <<get, get>>, jar |-> jar]
        ELSE [err |-> "", reqs |-> <<get>>, jar |-> ""]

\* Session.Logout; the remote ends the session of a request it receives.
SessionLogout(net, jar) ==
    LET get == Get(LogoutPath, NoDate, net)
    IN  IF net = "transport"
        THEN [err |-> ErrLogout, reqs |-> <<get>>, jar |-> jar]
        ELSE [err |-> "", reqs |-> <<get>>, jar |-> ""]

(***************************************************************************)
(* Session.IsLoggedIn against every probe body of the model.               *)
(***************************************************************************)
MaxBody == 3

BodyTokens == {"id=", "\"Abmelden\"", "\"abmelden\"", "Abmelden"}

ProbeBodies == SeqUpTo(BodyTokens, MaxBody)

IsLoggedInCall ==
    \E net \in GetOutcomes, body \in ProbeBodies :
        LET r == IsLoggedIn(net, body)
        IN  /\ last' = [NoLast EXCEPT !.op = "IsLoggedIn", !.loggedIn = r.loggedIn]
            /\ reqs' = r.reqs
            /\ UNCHANGED <<overview, dayPages, subjPage, now, serviceVars, serverVars>>

InitProbe ==
    /\ overview = <<>>
    /\ dayPages = [x \in ReportDates |-> <<>>]
    /\ subjPage = NoSubjPage
    /\ now = StartTime
    /\ last = NoLast
    /\ reqs = <<>>
    /\ NoService

NextProbe == IsLoggedInCall

SpecProbe == InitProbe /\ [][NextProbe]_vars

\* The marker's two tokens stand side by side in body.
MarkerIn(body) ==
    \E i \in 1..(Len(body) - 1) : body[i] = "id=" /\ body[i + 1] = "\"Abmelden\""

\* C10: IsLoggedIn answers false, and nothing else, when its probe request
\* failed in transport or its body could not be read; when the probe was
\* answered and read it answers true exactly if the body holds the logout
\* marker id="Abmelden".
C10_ProbeFalseOnFailure ==
    (last.op = "IsLoggedIn") =>
        /\ Len(reqs) = 1
        /\ reqs[1].path = ProbePath
        /\ last.err = ""
        /\ reqs[1].outcome \in {"transport", "read"} => ~last.loggedIn
        /\ reqs[1].outcome = "ok" => (last.loggedIn <=> MarkerIn(reqs[1].body))

C10_Witness ==
    /\ last.op = "IsLoggedIn"
    /\ reqs[1].outcome = "read"
    /\ MarkerIn(reqs[1].body)
    /\ ~last.loggedIn

(***************************************************************************)
(* AzubiheftService: the registry of sessions and the tools Login, Logout  *)
(* and IsLoggedIn, called by concurrent callers.  A caller's call advances *)
(* in steps at the points where it takes or releases sessionsMutex and     *)
(* where its Session talks to the remote.                                  *)
(***************************************************************************)
MaxSessions == 2

\* Two callers at a time.
Callers == {1, 2}

\* An argument of a tool call: missing (or no string), or a string.
Absent == [has |-> FALSE, val |-> ""]
Str(v) == [has |-> TRUE, val |-> v]

\* map[string]*Session
MapPut(m, k, v) == [x \in DOMAIN m \cup {k} |-> IF x = k THEN v ELSE m[x]]
MapDelete(m, k) == [x \in DOMAIN m \ {k} |-> m[x]]

\* uuid.New().String(): an identifier no earlier call was given.
NewUUIDFixed(n) == "uuid-1"

NewUUID(n) == "uuid-" \o ToString(n + 1)

\* NewSession(): a Session object of its own, with an empty cookie jar.  The
\* heap keeps the objects a Login has not dropped.
NewSession(heap) == Append(heap, [jar |-> "", probed |-> <<>>])

ErrInvalidSession == "invalid session ID"
ErrInvalidSessionHint ==
    "invalid session ID (hint: use 'default' or omit session_id to use auto-login session)"

\* getSession that hands out the default session for a handle it does not
\* know.
getSessionLenient(sessionID, registry, defaultID) ==
    LET id == IF sessionID \in DOMAIN registry THEN sessionID ELSE defaultID
    IN  IF id \notin DOMAIN registry
        THEN [session |-> 0,
              err |-> IF defaultID # "" THEN ErrInvalidSessionHint ELSE ErrInvalidSession]
        ELSE [session |-> registry[id], err |-> ""]

\* AzubiheftService.getSession, between RLock and RUnlock
getSession(sessionID, registry, defaultID) ==
    LET id == IF sessionID = "" /\ defaultID # "" THEN defaultID ELSE sessionID
    IN  IF id \notin DOMAIN registry
        THEN [session |-> 0,
              err |-> IF defaultID # "" THEN ErrInvalidSessionHint ELSE ErrInvalidSession]
        ELSE [session |-> registry[id], err |-> ""]

IdleCall == [pc |-> "idle", op |-> "none", sessionID |-> "", session |-> 0, newID |-> ""]

\* The body Session.Login has read from its probe request (<<>>: none).
ProbeRead(rs) ==
    IF Len(rs) = 3 /\ rs[3].path = ProbePath /\ rs[3].outcome = "ok"
    THEN rs[3].body
    ELSE <<>>

LoginTokens == {AllTokens}

LoginArgs ==
    { [username |-> Str("u1"), password |-> Str("p1")],
      [username |-> Str("u2"), password |-> Str("p2")],
      [username |-> Str("u1"), password |-> Str("bad")],
      [username |-> Absent, password |-> Str("p1")],
      [username |-> Str("u1"), password |-> Absent] }

LoginFailures ==
    {NoFailure}
        \cup {[at |-> i, kind |-> "transport"] : i \in 1..3}
        \cup {[at |-> i, kind |-> "read"] : i \in {1, 3}}
        \cup {[at |-> 2, kind |-> "status"]}

SessionArgs ==
    {Absent, Str(""), Str("default")}
        \cup {Str(NewUUID(n)) : n \in 0..(MaxSessions - 1)}

(***************************************************************************)
(* Session.Login against login pages that lack hidden state fields.  A     *)
(* page is its three hidden inputs, #__VIEWSTATE, #__VIEWSTATEGENERATOR    *)
(* and #__EVENTVALIDATION in that order: each is missing, or has a value.  *)
(***************************************************************************)
HiddenInput(has, val) == [has |-> has, val |-> IF has THEN val ELSE ""]

\* doc.Find(...).Attr("value") with its second result dropped: "" when the
\* element or the attribute is missing.
AttrValue(field) == IF field.has THEN field.val ELSE ""

ExtractTokens(page) == <<AttrValue(page[1]), AttrValue(page[2]), AttrValue(page[3])>>

\* Login returning an error for a page that lacks a hidden field.
SessionLoginCallStrict ==
    \E h1, h2, h3 \in BOOLEAN, username \in {"u1", "u2"}, password \in {"p1", "p2"},
       f \in LoginFailures :
        LET page == <<HiddenInput(h1, "vs"), HiddenInput(h2, "vsg"), HiddenInput(h3, "ev")>>
            r == SessionLogin(username, password, Net(1, f), Net(2, f), Net(3, f),
                              ExtractTokens(page), "")
            strict == Net(1, f) = "ok" /\ ~(h1 /\ h2 /\ h3)
        IN  /\ last' = [NoLast EXCEPT !.op = "Login", !.username = username,
                                      !.err = IF strict THEN ErrLoginParse ELSE r.err]
            /\ reqs' = IF Net(1, f) = "ok"
                       THEN IF strict THEN <<[r.reqs[1] EXCEPT !.body = page]>>
                            ELSE [r.reqs EXCEPT ![1].body = page]
                       ELSE r.reqs
            /\ UNCHANGED <<overview, dayPages, subjPage, now, serviceVars, serverVars>>

\* Session.Login of a new Session; the body of the first request is the
\* login page the remote answered with.
SessionLoginCall ==
    \E h1, h2, h3 \in BOOLEAN, username \in {"u1", "u2"}, password \in {"p1", "p2"},
       f \in LoginFailures :
        LET page == <<HiddenInput(h1, "vs"), HiddenInput(h2, "vsg"), HiddenInput(h3, "ev")>>
            r == SessionLogin(username, password, Net(1, f), Net(2, f), Net(3, f),
                              ExtractTokens(page), "")
        IN  /\ last' = [NoLast EXCEPT !.op = "Login", !.username = username,
                                      !.err = r.err]
            /\ reqs' = IF Net(1, f) = "ok" THEN [r.reqs EXCEPT ![1].body = page]
                       ELSE r.reqs
            /\ UNCHANGED <<overview, dayPages, subjPage, now, serviceVars, serverVars>>

InitLogin == InitProbe

NextLogin == SessionLoginCall

SpecLogin == InitLogin /\ [][NextLogin]_vars

HiddenNames == << <<"__VIEWSTATE">>, <<"__VIEWSTATEGENERATOR">>, <<"__EVENTVALIDATION">> >>

\* C27: token extraction does not fail Login.  When the login page was
\* fetched, whichever of the three hidden state fields it lacks, Login posts
\* its form with the value of each field the page has and the empty string
\* for each field it lacks; unless that POST fails in transport the probe
\* follows, and Login succeeds exactly if the probe's answer holds the logout
\* marker, failing with the invalid-credentials error otherwise.
C27_MissingTokensSubmittedEmpty ==
    [][(last'.op = "Login" /\ reqs'[1].outcome = "ok")
          => /\ Len(reqs') >= 2
             /\ reqs'[2].method = "POST"
             /\ reqs'[2].path = LoginPath
             /\ \A k \in 1..3 :
                   /\ HiddenNames[k] \in DOMAIN reqs'[2].form
                   /\ reqs'[2].form[HiddenNames[k]]
                         = <<IF reqs'[1].body[k].has THEN reqs'[1].body[k].val ELSE "">>
             /\ reqs'[2].outcome = "transport"
                   => (Len(reqs') = 2 /\ last'.err = ErrLoginSubmit)
             /\ reqs'[2].outcome # "transport"
                   => /\ Len(reqs') = 3
                      /\ reqs'[3].path = ProbePath
                      /\ (last'.err = "")
                            <=> (reqs'[3].outcome = "ok" /\ MarkerIn(reqs'[3].body))
                      /\ last'.err \in {"", ErrLoginInvalid}]_vars

\* A login that succeeds from a page without any hidden field.
C27_Witness ==
    /\ last.op = "Login"
    /\ last.err = ""
    /\ Len(reqs) = 3
    /\ \A k \in 1..3 : ~reqs[1].body[k].has
    /\ \A k \in 1..3 : reqs[2].form[HiddenNames[k]] = <<"">>
    /\ MarkerIn(reqs[3].body)

\* AzubiheftService.Login up to sessionID := uuid.New().String()
LoginCall(t) ==
    /\ calls[t].pc = "idle"
    /\ Len(objs) < MaxSessions
    /\ \E args \in LoginArgs, f \in LoginFailures, tokens \in LoginTokens :
        IF ~args.username.has
        THEN UNCHANGED <<objs, last, reqs, calls, uuids>>
        ELSE IF ~args.password.has
        THEN UNCHANGED <<objs, last, reqs, calls, uuids>>
        ELSE LET heap == NewSession(objs)
                 session == Len(heap)
                 r == SessionLogin(args.username.val, args.password.val, Net(1, f),
                                   Net(2, f), Net(3, f), tokens, heap[session].jar)
             IN  /\ objs' = IF r.err # "" THEN objs
                            ELSE [heap EXCEPT ![session] =
                                     [jar |-> r.jar, probed |-> ProbeRead(r.reqs)]]
                 /\ last' = [NoLast EXCEPT !.op = "Login", !.username = args.username.val,
                                           !.err = r.err]
                 /\ reqs' = r.reqs
                 /\ IF r.err # ""
                    THEN UNCHANGED <<calls, uuids>>
                    ELSE /\ calls' = [calls EXCEPT ![t] =
                                [IdleCall EXCEPT !.pc = "login_lock", !.op = "Login",
                                                 !.session = session,
                                                 !.newID = NewUUID(uuids)]]
                         /\ uuids' = uuids + 1
    /\ UNCHANGED serverVars
    /\ UNCHANGED <<overview, dayPages, subjPage, now, sessions, defaultSessionID, mu>>

\* Lock that does not wait for the readers to leave.
LockOverReaders(t) ==
    /\ calls[t].pc \in {"login_lock", "logout_lock"}
    /\ mu.writer = 0
    /\ mu' = [mu EXCEPT !.writer = t]
    /\ calls' = [calls EXCEPT ![t].pc =
                    IF calls[t].pc = "login_lock" THEN "login_store" ELSE "logout_delete"]
    /\ UNCHANGED serverVars
    /\ UNCHANGED <<overview, dayPages, subjPage, now, last, reqs, sessions,
                   defaultSessionID, objs, uuids>>

\* s.sessionsMutex.Lock() of Login and Logout
Lock(t) ==
    /\ calls[t].pc \in {"login_lock", "logout_lock"}
    /\ mu.writer = 0
    /\ mu.readers = {}
    /\ mu' = [mu EXCEPT !.writer = t]
    /\ calls' = [calls EXCEPT ![t].pc =
                    IF calls[t].pc = "login_lock" THEN "login_store" ELSE "logout_delete"]
    /\ UNCHANGED serverVars
    /\ UNCHANGED <<overview, dayPages, subjPage, now, last, reqs, sessions,
                   defaultSessionID, objs, uuids>>

\* s.sessions[sessionID] = session; s.sessionsMutex.Unlock(); return
LoginStore(t) ==
    /\ calls[t].pc = "login_store"
    /\ sessions' = MapPut(sessions, calls[t].newID, calls[t].session)
    /\ mu' = [mu EXCEPT !.writer = 0]
    /\ calls' = [calls EXCEPT ![t] = IdleCall]
    /\ UNCHANGED serverVars
    /\ UNCHANGED <<overview, dayPages, subjPage, now, last, reqs, defaultSessionID,
                   objs, uuids>>

\* AzubiheftService.Logout and AzubiheftService.IsLoggedIn up to the RLock
\* of getSession
SessionToolCall(t) ==
    /\ calls[t].pc = "idle"
    /\ \E op \in {"Logout", "IsLoggedIn"}, sessionID \in SessionArgs :
        IF ~sessionID.has
        THEN UNCHANGED <<calls, mu>>
        ELSE /\ mu.writer = 0
             /\ mu' = [mu EXCEPT !.readers = @ \cup {t}]
             /\ calls' = [calls EXCEPT ![t] =
                    [IdleCall EXCEPT !.pc = "lookup", !.op = op,
                                     !.sessionID = sessionID.val]]
    /\ UNCHANGED serverVars
    /\ UNCHANGED <<overview, dayPages, subjPage, now, last, reqs, sessions,
                   defaultSessionID, objs, uuids>>

\* getSession: the lookup and the deferred RUnlock
GetSessionReturn(t) ==
    /\ calls[t].pc = "lookup"
    /\ LET r == getSession(calls[t].sessionID, sessions, defaultSessionID)
       IN  IF r.err # ""
           THEN calls' = [calls EXCEPT ![t] = IdleCall]
           ELSE calls' = [calls EXCEPT
                        ![t].pc = IF calls[t].op = "Logout" THEN "logout" ELSE "probe",
                        ![t].session = r.session]
    /\ mu' = [mu EXCEPT !.readers = @ \ {t}]
    /\ UNCHANGED serverVars
    /\ UNCHANGED <<overview, dayPages, subjPage, now, last, reqs, sessions,
                   defaultSessionID, objs, uuids>>

\* session.Logout() of AzubiheftService.Logout
LogoutSession(t) ==
    /\ calls[t].pc = "logout"
    /\ \E net \in {"ok", "transport"} :
        LET r == SessionLogout(net, objs[calls[t].session].jar)
        IN  /\ objs' = [objs EXCEPT ![calls[t].session].jar = r.jar]
            /\ last' = [NoLast EXCEPT !.op = "Logout", !.err = r.err]
            /\ reqs' = r.reqs
            /\ calls' = [calls EXCEPT ![t] =
                            IF r.err # "" THEN IdleCall
                            ELSE [calls[t] EXCEPT !.pc = "logout_lock"]]
    /\ UNCHANGED serverVars
    /\ UNCHANGED <<overview, dayPages, subjPage, now, sessions, defaultSessionID, mu, uuids>>

\* delete(s.sessions, sessionID); s.sessionsMutex.Unlock(); return
LogoutDelete(t) ==
    /\ calls[t].pc = "logout_delete"
    /\ sessions' = MapDelete(sessions, calls[t].sessionID)
    /\ mu' = [mu EXCEPT !.writer = 0]
    /\ calls' = [calls EXCEPT ![t] = IdleCall]
    /\ UNCHANGED serverVars
    /\ UNCHANGED <<overview, dayPages, subjPage, now, last, reqs, defaultSessionID,
                   objs, uuids>>

\* session.IsLoggedIn() of AzubiheftService.IsLoggedIn, and its return
ProbeSession(t) ==
    /\ calls[t].pc = "probe"
    /\ \E net \in GetOutcomes :
        LET r == IsLoggedIn(net, RemoteProbeBody(objs[calls[t].session].jar))
        IN  /\ last' = [NoLast EXCEPT !.op = "IsLoggedIn", !.loggedIn = r.loggedIn]
            /\ reqs' = r.reqs
    /\ calls' = [calls EXCEPT ![t] = IdleCall]
    /\ UNCHANGED serverVars
    /\ UNCHANGED <<overview, dayPages, subjPage, now, sessions, defaultSessionID, objs,
                   mu, uuids>>

EnvCredentials ==
    { [username |-> "", password |-> ""],
      [username |-> "u1", password |-> "p1"],
      [username |-> "u1", password |-> "bad"] }

\* NewAzubiheftService(logger, username, password)
InitService ==
    /\ overview = <<>>
    /\ dayPages = [x \in ReportDates |-> <<>>]
    /\ subjPage = NoSubjPage
    /\ now = StartTime
    /\ mu = [writer |-> 0, readers |-> {}]
    /\ calls = [t \in Callers |-> IdleCall]
    /\ uuids = 0
    /\ serve = NoServe
    /\ stdout = <<>>
    /\ \E env \in EnvCredentials, f \in LoginFailures, tokens \in LoginTokens :
        IF env.username # "" /\ env.password # ""
        THEN LET heap == NewSession(<<>>)
                 r == SessionLogin(env.username, env.password, Net(1, f), Net(2, f),
                                   Net(3, f), tokens, heap[1].jar)
             IN  /\ objs = IF r.err # "" THEN <<>>
                           ELSE <<[jar |-> r.jar, probed |-> ProbeRead(r.reqs)]>>
                 /\ last = [NoLast EXCEPT !.op = "Login", !.username = env.username,
                                          !.err = r.err]
                 /\ reqs = r.reqs
                 /\ sessions = IF r.err = "" THEN MapPut(EmptyMap, "default", 1)
                               ELSE EmptyMap
                 /\ defaultSessionID = IF r.err = "" THEN "default" ELSE ""
        ELSE /\ objs = <<>>
             /\ last = NoLast
             /\ reqs = <<>>
             /\ sessions = EmptyMap
             /\ defaultSessionID = ""

NextService ==
    \E t \in Callers :
        \/ LoginCall(t)
        \/ Lock(t)
        \/ LoginStore(t)
        \/ SessionToolCall(t)
        \/ GetSessionReturn(t)
        \/ LogoutSession(t)
        \/ LogoutDelete(t)
        \/ ProbeSession(t)

\* The session tools of one AzubiheftService, called by concurrent callers.
SpecService == InitService /\ [][NextService]_vars

(***************************************************************************)
(* Claims about the session registry.                                      *)
(***************************************************************************)
\* The Login calls that hold a handle they have not returned yet.
LoggingIn == {t \in Callers : calls[t].pc \in {"login_lock", "login_store"}}

\* The handle a session_id argument stands for.
Resolve(sessionID) ==
    IF sessionID = "" /\ defaultSessionID # "" THEN defaultSessionID ELSE sessionID

\* What handle h resolves to changes in this step.
Changes(h) ==
    \/ h \notin DOMAIN sessions'
    \/ sessions'[h] # sessions[h]
    \/ objs'[sessions[h]] # objs[sessions[h]]

\* C8: the handles of concurrent successful Login calls differ from each
\* other and from every handle of the registry; each handle, stored or about
\* to be, has a Session object of its own, with its own cookie jar; and what
\* a handle resolves to, the object and its cookie jar, changes only in a
\* step of a Logout or IsLoggedIn call made on that handle.
C8_DistinctIndependentHandles ==
    [][/\ \A t \in LoggingIn :
            /\ calls[t].newID \notin DOMAIN sessions
            /\ \A h \in DOMAIN sessions : sessions[h] # calls[t].session
            /\ \A u \in LoggingIn \ {t} :
                   /\ calls[u].newID # calls[t].newID
                   /\ calls[u].session # calls[t].session
       /\ \A h1, h2 \in DOMAIN sessions : h1 # h2 => sessions[h1] # sessions[h2]
       /\ \A h \in DOMAIN sessions :
            Changes(h) =>
                \E t \in Callers :
                    /\ calls[t].op \in {"Logout", "IsLoggedIn"}
                    /\ Resolve(calls[t].sessionID) = h]_vars

C8_Witness ==
    /\ calls[1].pc = "login_store"
    /\ calls[2].pc = "login_lock"
    /\ objs[calls[1].session].jar = "u1"
    /\ objs[calls[2].session].jar = "u2"
    /\ mu.writer = 1

\* C9: Session.Login succeeds only if its third request, the probe after the
\* form submission, was answered with a body that holds the logout marker;
\* whatever the status of the POST's response, it fails with the invalid
\* credentials error when the probe does not confirm; and every Session
\* object the registry holds, or a Login call is about to store, is one whose
\* Login read the marker from its probe.
C9_LoginOnlyIfProbeConfirms ==
    /\ (last.op = "Login" /\ last.err = "") =>
          /\ Len(reqs) = 3
          /\ reqs[2].method = "POST"
          /\ reqs[2].path = LoginPath
          /\ reqs[3].method = "GET"
          /\ reqs[3].path = ProbePath
          /\ reqs[3].outcome = "ok"
          /\ MarkerIn(reqs[3].body)
    /\ (/\ last.op = "Login"
        /\ Len(reqs) = 3
        /\ ~(reqs[3].outcome = "ok" /\ MarkerIn(reqs[3].body)))
          => last.err = ErrLoginInvalid
    /\ \A h \in DOMAIN sessions : MarkerIn(objs[sessions[h]].probed)
    /\ \A t \in LoggingIn : MarkerIn(objs[calls[t].session].probed)

C9_Witness ==
    /\ last.op = "Login"
    /\ last.err = ""
    /\ reqs[2].outcome = "status"
    /\ "uuid-1" \in DOMAIN sessions
    /\ objs[sessions["uuid-1"]].jar = last.username

(***************************************************************************)
(* Claims about writing and deleting reports.                              *)
(***************************************************************************)
\* C11 as stated: against a remote that stores what it receives, a
\* successful WriteReport(date, "hello\nworld", "01:30", 2) on a day without
\* entries, followed by a successful GetReport(date, false), yields exactly
\* one entry, with text "hello\nworld", duration "01:30" and the label of
\* subject 2 as its type.
C11_WriteThenGetRoundTrip ==
    [][(/\ last.op = "WriteReport"
        /\ last.err = ""
        /\ last.message = <<"hello", "\n", "world">>
        /\ last.timeSpent = <<"01:30">>
        /\ last.entryType = 2
        /\ Len(dayPages[last.date]) = 1
        /\ last'.op = "GetReport"
        /\ last'.date = last.date
        /\ ~last'.includeFormatting
        /\ last'.err = "")
          => /\ Len(last'.entries) = 1
             /\ last'.entries[1].Text = <<"hello", "\n", "world">>
             /\ last'.entries[1].Duration = <<"01:30">>
             /\ last'.entries[1].Type = <<"Schule">>]_vars

\* The deletion POSTs among the requests rs, in the order they were issued.
DeletionPosts(rs) == SelectSeq(rs, IsDeletionPost)

\* C12: a DeleteReport call that targets all entries of a day issues its
\* deletion POSTs one per entry in list order; every POST before the last
\* was answered with success; when the i-th fails, by transport or by
\* status, the call returns an error, the first i-1 entries are gone from
\* the day page, every other container is still there, and no further
\* deletion request is issued; when none fails all entries are gone.
C12_SequentialDeletionStopsAtFailure ==
    [][(last'.op = "DeleteReport" /\ last'.entryNumber.nil)
          => LET page == dayPages[last'.date]
                 kept == RealContainers(page)
                 dels == DeletionPosts(reqs')
                 n == Len(dels)
                 failed == n > 0 /\ dels[n].outcome # "ok"
                 gone == {kept[k].seq : k \in 1..(IF failed THEN n - 1 ELSE n)}
             IN  /\ n <= Len(kept)
                 /\ \A k \in 1..n : dels[k].form.Seq = <<"-">> \o kept[k].seq
                 /\ \A k \in 1..(n - 1) : dels[k].outcome = "ok"
                 /\ \A k \in 1..n : reqs'[Len(reqs') - n + k] = dels[k]
                 /\ failed => last'.err \in {ErrDelete, ErrDeleteStatus}
                 /\ (last'.err = "") => n = Len(kept)
                 /\ dayPages'[last'.date] = SelectSeq(page, LAMBDA c : c.seq \notin gone)]_vars

C12_Witness ==
    /\ last.op = "DeleteReport"
    /\ last.entryNumber.nil
    /\ last.err = ErrDeleteStatus
    /\ Len(DeletionPosts(reqs)) = 2
    /\ reqs[Len(reqs)].outcome = "status"
    /\ Len(dayPages[last.date]) = 1

\* The deletion form the claims expect for container c: the negated
\* sequence number, and the duration and the plain text GetReport reads.
FormDeletes(form, c) ==
    /\ form.Seq = <<"-">> \o c.seq
    /\ form.Dauer = TrimSpace(c.dur)
    /\ form.Inhalt = TrimSpace(InnerText(c.html))

\* The entries a DeleteReport call with this entry number targets among the
\* entries kept: all of them, or the one at that position.
Targeted(kept, entryNumber) ==
    IF entryNumber.nil THEN kept ELSE <<kept[entryNumber.val]>>

\* A DeleteReport call whose GetReport returned entries and whose entry
\* number is nil or in range.
DeletesEntries(l, rs, page) ==
    /\ l.op = "DeleteReport"
    /\ rs[1].outcome = "ok"
    /\ RealContainers(page) # <<>>
    /\ ~OutOfRange(l.entryNumber, Len(RealContainers(page)))

\* C21 as stated: every deletion POST of a DeleteReport call carries the
\* negated sequence number, the duration and the plain text of the entry it
\* targets; with a nil entry number the call issues exactly one such POST per
\* entry GetReport returned, with a valid entry number exactly one in total.
C21_OnePostPerTargetedEntry ==
    [][DeletesEntries(last', reqs', dayPages[last'.date])
          => LET targets == Targeted(RealContainers(dayPages[last'.date]),
                                     last'.entryNumber)
                 dels == DeletionPosts(reqs')
             IN  /\ Len(dels) = Len(targets)
                 /\ \A k \in 1..Len(dels) : FormDeletes(dels[k].form, targets[k])]_vars

\* C21 amended: the deletion POSTs of a call are, in order, those of the
\* first targeted entries, each with that entry's negated sequence number,
\* duration and plain text; none is issued when the week identifier is not
\* resolved, and there is one per targeted entry (one per entry for nil, one
\* in total for a valid entry number) when the week identifier is resolved
\* and every POST is answered with success.
C21_OnePostPerTargetedEntryWhenServed ==
    [][DeletesEntries(last', reqs', dayPages[last'.date])
          => LET targets == Targeted(RealContainers(dayPages[last'.date]),
                                     last'.entryNumber)
                 dels == DeletionPosts(reqs')
                 resolved == /\ Len(reqs') >= 2
                             /\ reqs'[2].outcome = "ok"
                             /\ ScanTiles(overview, ISOWeek(last'.date).year,
                                          ISOWeek(last'.date).week, 0) # 0
             IN  /\ Len(dels) <= Len(targets)
                 /\ \A k \in 1..Len(dels) : FormDeletes(dels[k].form, targets[k])
                 /\ ~resolved => dels = <<>>
                 /\ (resolved /\ AllAnswered(reqs')) => Len(dels) = Len(targets)]_vars

C21_Witness ==
    /\ last.op = "DeleteReport"
    /\ last.entryNumber = EntryNo(2)
    /\ last.err = ""
    /\ Len(DeletionPosts(reqs)) = 1
    /\ DeletionPosts(reqs)[1].form.Seq = <<"-", "2">>
    /\ DeletionPosts(reqs)[1].form.Dauer = <<"02:00">>
    /\ DeletionPosts(reqs)[1].form.Inhalt = <<"x", "y">>
    /\ Len(dayPages[last.date]) = 1

\* C22: when the day page was fetched and holds no entry once the 00:00
\* containers are filtered out, DeleteReport returns success, for any entry
\* number, having issued the day-page GET alone: no overview request, no
\* deletion POST, and the remote's pages are what they were.
C22_EmptyDayOnlyDayGet ==
    [][(/\ last'.op = "DeleteReport"
        /\ reqs'[1].outcome = "ok"
        /\ RealContainers(dayPages[last'.date]) = <<>>)
          => /\ last'.err = ""
             /\ reqs' = <<Get(DayPath, last'.date, "ok")>>
             /\ dayPages' = dayPages]_vars

\* An out-of-range entry number on a page whose only containers are 00:00
\* slots.
C22_Witness ==
    /\ last.op = "DeleteReport"
    /\ last.entryNumber = EntryNo(3)
    /\ last.err = ""
    /\ Len(dayPages[last.date]) = 2
    /\ RealContainers(dayPages[last.date]) = <<>>
    /\ Len(reqs) = 1

\* The identifier the overview page shows for the week of a date; 0: none.
ShownWeekID(tiles, date) ==
    ScanTiles(tiles, ISOWeek(date).year, ISOWeek(date).week, 0)

\* Request i of rs is the overview GET and every POST of rs names the
\* identifier the overview page shows for the date now.
ResolvedAnew(rs, i, tiles, date) ==
    /\ Len(rs) >= i
    /\ rs[i].method = "GET"
    /\ rs[i].path = OverviewPath
    /\ \A k \in 1..Len(rs) :
          rs[k].method = "POST"
             => /\ k > i
                /\ rs[k].brnr = ShownWeekID(tiles, date)
                /\ rs[k].brnr # 0

\* C23: the week identifier is never cached.  Every WriteReport call with a
\* non-zero duration starts with a GET of the overview page, and every
\* DeleteReport call that read a day with entries issues that GET next; the
\* identifier in the URL of each POST of the call is the one the overview
\* page shows during that call, whatever it showed during earlier calls.
C23_WeekIDResolvedInCall ==
    [][/\ (last'.op = "WriteReport" /\ last'.timeSpent # ZeroDuration)
             => ResolvedAnew(reqs', 1, overview, last'.date)
       /\ (/\ last'.op = "DeleteReport"
           /\ reqs'[1].outcome = "ok"
           /\ RealContainers(dayPages[last'.date]) # <<>>)
             => ResolvedAnew(reqs', 2, overview, last'.date)]_vars

\* A write stored under the identifier the overview page shows after the
\* remote renumbered its weeks: an earlier call was stored under 11.
C23_Witness ==
    /\ last.op = "WriteReport"
    /\ last.err = ""
    /\ overview = <<GoodTile("24", "2025", 15), GoodTile("1", "2025", 12)>>
    /\ Len(reqs) = 2
    /\ reqs[1].path = OverviewPath
    /\ reqs[2].method = "POST"
    /\ reqs[2].brnr = 12

\* The error GetReportWeekID returns when the overview GET has this outcome
\* and the page shows this identifier for the week ("": it succeeds).
WeekError(outcome, id) ==
    CASE outcome = "transport" -> ErrGetReports
      [] outcome = "read" -> ErrParseReports
      [] id = 0 -> ErrNoWeek
      [] OTHER -> ""

\* C24: a WriteReport call with a non-zero duration issues its POST only
\* after the week identifier was resolved: when GetReportWeekID fails the
\* call returns that error and the overview GET is its only request; and
\* when the POST is answered with a status other than 200 the call fails
\* with an error that holds the status code and the body of the response.
C24_PostAfterWeekResolved ==
    [][(last'.op = "WriteReport" /\ last'.timeSpent # ZeroDuration)
          => LET werr == WeekError(reqs'[1].outcome,
                                   ShownWeekID(overview, last'.date))
             IN  /\ werr # "" => /\ last'.err = werr
                                 /\ Len(reqs') = 1
                                 /\ reqs'[1].method = "GET"
                 /\ \A k \in 1..Len(reqs') :
                       reqs'[k].method = "POST" => (k = 2 /\ werr = "")
                 /\ (Len(reqs') = 2 /\ reqs'[2].outcome = "status")
                       => \E code \in {403, 500}, body \in {"", "Interner Fehler"} :
                             /\ RemoteRefusal(reqs'[2]) = [code |-> code, body |-> body]
                             /\ last'.err = "failed to write report: status code "
                                               \o ToString(code) \o ", body: " \o body]_vars

\* The remote refused the write with status 500 and a body.
C24_Witness ==
    /\ last.op = "WriteReport"
    /\ Len(reqs) = 2
    /\ reqs[2].outcome = "status"
    /\ last.err = "failed to write report: status code 500, body: Interner Fehler"

\* The week was not found: no POST.
C24_WitnessNoWeek ==
    /\ last.op = "WriteReport"
    /\ last.timeSpent # ZeroDuration
    /\ last.err = ErrNoWeek
    /\ Len(reqs) = 1

\* Container j of the page holds an entry, and it is the k-th that does.
KthEntryAt(page, k, j) ==
    /\ j \in 1..Len(page)
    /\ TrimSpace(page[j].dur) # ZeroDuration
    /\ Cardinality({m \in 1..j : TrimSpace(page[m].dur) # ZeroDuration}) = k

\* The number of containers of the page that hold an entry.
EntryCount(page) ==
    Cardinality({m \in 1..Len(page) : TrimSpace(page[m].dur) # ZeroDuration})

\* The page without its container j.
WithoutContainer(page, j) ==
    [m \in 1..(Len(page) - 1) |-> IF m < j THEN page[m] ELSE page[m + 1]]

\* C28: a successful GetReport returns, at position k, the entry of the k-th
\* container of the page whose duration is not 00:00, so the entries stand
\* in the order of their containers; and a DeleteReport call with entry
\* number k, 1 <= k <= count, addresses its one deletion POST to that same
\* container, which is the one the remote removes: containers with duration
\* 00:00 take no entry number.
C28_EntryNumberCountsRealEntries ==
    [][/\ (last'.op = "GetReport" /\ last'.err = "")
             => LET page == dayPages[last'.date]
                IN  /\ Len(last'.entries) = EntryCount(page)
                    /\ \A k \in 1..Len(last'.entries) :
                          \E j \in 1..Len(page) :
                              /\ KthEntryAt(page, k, j)
                              /\ last'.entries[k].Seq = page[j].seq
                              /\ last'.entries[k].Duration = TrimSpace(page[j].dur)
       /\ (/\ last'.op = "DeleteReport"
           /\ ~last'.entryNumber.nil
           /\ reqs'[1].outcome = "ok"
           /\ last'.entryNumber.val \in 1..EntryCount(dayPages[last'.date]))
             => LET page == dayPages[last'.date]
                    dels == DeletionPosts(reqs')
                IN  \E j \in 1..Len(page) :
                        /\ KthEntryAt(page, last'.entryNumber.val, j)
                        /\ \A d \in 1..Len(dels) :
                              dels[d].form.Seq = <<"-">> \o page[j].seq
                        /\ last'.err = ""
                              => /\ Len(dels) = 1
                                 /\ dayPages'[last'.date] = WithoutContainer(page, j)]_vars

\* Entry number 1 deletes the second container: the first is a 00:00 slot,
\* which stays.
C28_Witness ==
    /\ last.op = "DeleteReport"
    /\ last.entryNumber = EntryNo(1)
    /\ last.err = ""
    /\ Len(DeletionPosts(reqs)) = 1
    /\ DeletionPosts(reqs)[1].form.Seq = <<"-", "2">>
    /\ Len(dayPages[last.date]) = 1
    /\ dayPages[last.date][1].seq = <<"1">>
    /\ dayPages[last.date][1].dur = ZeroDuration

(***************************************************************************)
(* The tool handlers of AzubiheftService, each run from its first line to  *)
(* its return: the protocol server calls one at a time.  An outcome is the *)
(* handler's result (text, err), the Session call it made with the         *)
(* requests of that call, and the service and the remote as it left them.  *)
(***************************************************************************)
\* Arguments of a tool call that are no strings: missing, or a value.
AbsentSeq == [has |-> FALSE, val |-> <<>>]
AbsentNum == [has |-> FALSE, val |-> 0]
AbsentBool == [has |-> FALSE, val |-> FALSE]

NoArgs ==
    [session_id |-> Absent, username |-> Absent, password |-> Absent,
     subject_name |-> Absent, subject_id |-> Absent, date |-> Absent,
     include_formatting |-> AbsentBool, message |-> AbsentSeq,
     time_spent |-> AbsentSeq, entry_type |-> AbsentNum, entry_number |-> AbsentNum]

\* The date strings of the model and the dates they spell.
DateOf == [x \in {"2024-12-30"} |-> Date(2024, 12, 30)]

\* time.Parse("2006-01-02", dateStr)
ParseDate(dateStr) ==
    IF dateStr \in DOMAIN DateOf
    THEN [ok |-> TRUE, date |-> DateOf[dateStr]]
    ELSE [ok |-> FALSE, date |-> NoDate]

ErrSessionRequired == "session_id is required"
ErrDateRequired == "date is required"
ErrDateFormat == "invalid date format, use YYYY-MM-DD"

\* F of the value of v, v taken once: v is a result the code keeps in a
\* local variable.
Bind(v, F(_)) == CHOOSE y \in {F(x) : x \in {v}} : TRUE

\* fmt.Errorf("...: %w", err)
Wrap(prefix, err) == prefix \o ": " \o err

Outcome(text, err, l, rs) ==
    [text |-> text, err |-> err, last |-> l, reqs |-> rs, sessions |-> sessions,
     objs |-> objs, uuids |-> uuids, dayPages |-> dayPages, subjPage |-> subjPage]

\* A return before any Session call.
Fail(err) == Outcome(<<>>, err, NoLast, <<>>)

\* AzubiheftService.Login from session.Login on
LoginReturn(args, heap, r) ==
    LET session == Len(heap)
        l == [NoLast EXCEPT !.op = "Login", !.username = args.username.val,
                            !.err = r.err]
        sessionID == NewUUID(uuids)
    IN  IF r.err # ""
        THEN Outcome(<<>>, Wrap("login failed", r.err), l, r.reqs)
        ELSE [text |-> <<"Login successful. Session ID: ", sessionID>>, err |-> "",
              last |-> l, reqs |-> r.reqs,
              sessions |-> MapPut(sessions, sessionID, session),
              objs |-> [heap EXCEPT ![session] =
                           [jar |-> r.jar, probed |-> ProbeRead(r.reqs)]],
              uuids |-> uuids + 1, dayPages |-> dayPages, subjPage |-> subjPage]

\* AzubiheftService.Login that registers the session before it knows the
\* outcome of the login.
ToolLoginRegistersFirst(args, f) ==
    IF ~args.username.has THEN Fail("username is required")
    ELSE IF ~args.password.has THEN Fail("password is required")
    ELSE Bind(SessionLogin(args.username.val, args.password.val, Net(1, f),
                      Net(2, f), Net(3, f), AllTokens, ""),
                      LAMBDA r :
                         IF r.err = "" THEN LoginReturn(args, NewSession(objs), r)
                         ELSE [LoginReturn(args, NewSession(objs), r)
                                  EXCEPT !.sessions = MapPut(sessions, NewUUID(uuids),
                                                             Len(objs) + 1),
                                         !.objs = NewSession(objs),
                                         !.uuids = uuids + 1])

\* AzubiheftService.Login
ToolLogin(args, f) ==
    IF ~args.username.has THEN Fail("username is required")
    ELSE IF ~args.password.has THEN Fail("password is required")
    ELSE Bind(SessionLogin(args.username.val, args.password.val, Net(1, f),
                      Net(2, f), Net(3, f), AllTokens, ""),
                      LAMBDA r : LoginReturn(args, NewSession(objs), r))

\* AzubiheftService.Logout from session.Logout on
LogoutReturn(args, session, r) ==
    [text |-> IF r.err # "" THEN <<>> ELSE <<"Logout successful">>,
     err |-> IF r.err # "" THEN Wrap("logout failed", r.err) ELSE "",
     last |-> [NoLast EXCEPT !.op = "Logout", !.err = r.err],
     reqs |-> r.reqs,
     sessions |-> IF r.err # "" THEN sessions
                  ELSE MapDelete(sessions, args.session_id.val),
     objs |-> [objs EXCEPT ![session].jar = r.jar],
     uuids |-> uuids, dayPages |-> dayPages, subjPage |-> subjPage]

\* AzubiheftService.Logout
ToolLogout(args, f) ==
    IF ~args.session_id.has THEN Fail(ErrSessionRequired)
    ELSE LET g == getSession(args.session_id.val, sessions, defaultSessionID)
         IN  IF g.err # "" THEN Fail(g.err)
             ELSE Bind(SessionLogout(Net(1, f), objs[g.session].jar),
                      LAMBDA r : LogoutReturn(args, g.session, r))

\* AzubiheftService.IsLoggedIn from session.IsLoggedIn on
IsLoggedInReturn(r) ==
    Outcome(<<"Logged in: ", r.loggedIn>>, "",
            [NoLast EXCEPT !.op = "IsLoggedIn", !.loggedIn = r.loggedIn], r.reqs)

\* AzubiheftService.IsLoggedIn
ToolIsLoggedIn(args, f) ==
    IF ~args.session_id.has THEN Fail(ErrSessionRequired)
    ELSE LET g == getSession(args.session_id.val, sessions, defaultSessionID)
         IN  IF g.err # "" THEN Fail(g.err)
             ELSE Bind(IsLoggedIn(Net(1, f),
                      RemoteProbeBody(objs[g.session].jar)),
                      LAMBDA r : IsLoggedInReturn(r))

\* AzubiheftService.GetSubjects from session.GetSubjects on
GetSubjectsReturn(r) ==
    Outcome(IF r.err # "" THEN <<>> ELSE <<"Subjects: ", r.subjects>>,
            IF r.err # "" THEN Wrap("failed to get subjects", r.err) ELSE "",
            [NoLast EXCEPT !.op = "GetSubjects", !.err = r.err,
                           !.subjects = r.subjects],
            r.reqs)

\* AzubiheftService.GetSubjects: a missing session_id is the empty string.
ToolGetSubjects(args, f) ==
    LET g == getSession(args.session_id.val, sessions, defaultSessionID)
    IN  IF g.err # "" THEN Fail(g.err)
        ELSE Bind(GetSubjects(Net(1, f), subjPage),
                      LAMBDA r : GetSubjectsReturn(r))

\* AzubiheftService.AddSubject from session.AddSubject on
AddSubjectReturn(args, r) ==
    [text |-> IF r.err # "" THEN <<>>
              ELSE <<"Subject added successfully: ", args.subject_name.val>>,
     err |-> IF r.err # "" THEN Wrap("failed to add subject", r.err) ELSE "",
     last |-> [NoLast EXCEPT !.op = "AddSubject",
                             !.subjectName = args.subject_name.val, !.err = r.err],
     reqs |-> r.reqs, sessions |-> sessions, objs |-> objs, uuids |-> uuids,
     dayPages |-> dayPages, subjPage |-> RemoteSubjectServe(subjPage, r.reqs)]

\* AzubiheftService.AddSubject
ToolAddSubject(args, f) ==
    IF ~args.session_id.has THEN Fail(ErrSessionRequired)
    ELSE IF ~args.subject_name.has THEN Fail("subject_name is required")
    ELSE LET g == getSession(args.session_id.val, sessions, defaultSessionID)
         IN  IF g.err # "" THEN Fail(g.err)
             ELSE Bind(AddSubject(args.subject_name.val, Net(1, f),
                      Net(2, f), subjPage, now),
                      LAMBDA r : AddSubjectReturn(args, r))

\* AzubiheftService.DeleteSubject from session.DeleteSubject on
DeleteSubjectReturn(args, r) ==
    [text |-> IF r.err # "" THEN <<>>
              ELSE <<"Subject deleted successfully: ", args.subject_id.val>>,
     err |-> IF r.err # "" THEN Wrap("failed to delete subject", r.err) ELSE "",
     last |-> [NoLast EXCEPT !.op = "DeleteSubject",
                             !.subjectID = args.subject_id.val, !.err = r.err],
     reqs |-> r.reqs, sessions |-> sessions, objs |-> objs, uuids |-> uuids,
     dayPages |-> dayPages, subjPage |-> RemoteSubjectServe(subjPage, r.reqs)]

\* AzubiheftService.DeleteSubject
ToolDeleteSubject(args, f) ==
    IF ~args.session_id.has THEN Fail(ErrSessionRequired)
    ELSE IF ~args.subject_id.has THEN Fail("subject_id is required")
    ELSE LET g == getSession(args.session_id.val, sessions, defaultSessionID)
         IN  IF g.err # "" THEN Fail(g.err)
             ELSE Bind(DeleteSubject(args.subject_id.val, Net(1, f),
                      Net(2, f), subjPage),
                      LAMBDA r : DeleteSubjectReturn(args, r))

\* AzubiheftService.GetReport from session.GetReport on
GetReportReturn(args, date, includeFormatting, r) ==
    Outcome(IF r.err # "" THEN <<>> ELSE <<"Reports: ", args.date.val, r.entries>>,
            IF r.err # "" THEN Wrap("failed to get report", r.err) ELSE "",
            [NoLast EXCEPT !.op = "GetReport", !.date = date,
                           !.includeFormatting = includeFormatting,
                           !.err = r.err, !.entries = r.entries],
            r.reqs)

\* AzubiheftService.GetReport
ToolGetReport(args, f) ==
    IF ~args.session_id.has THEN Fail(ErrSessionRequired)
    ELSE IF ~args.date.has THEN Fail(ErrDateRequired)
    ELSE IF ~ParseDate(args.date.val).ok THEN Fail(ErrDateFormat)
    ELSE Bind(ParseDate(args.date.val).date, LAMBDA date :
         LET includeFormatting == args.include_formatting.has
                                     /\ args.include_formatting.val
             g == getSession(args.session_id.val, sessions, defaultSessionID)
         IN  IF g.err # "" THEN Fail(g.err)
             ELSE Bind(GetReport(date, includeFormatting, Net(1, f),
                      dayPages[date]),
                      LAMBDA r : GetReportReturn(args, date, includeFormatting, r)))

\* AzubiheftService.WriteReport from session.WriteReport on
WriteReportReturn(args, date, r) ==
    [text |-> IF r.err # "" THEN <<>>
              ELSE <<"Report written successfully: ", args.date.val>>,
     err |-> IF r.err # "" THEN Wrap("failed to write report", r.err) ELSE "",
     last |-> [NoLast EXCEPT !.op = "WriteReport", !.date = date,
                             !.message = args.message.val,
                             !.timeSpent = args.time_spent.val,
                             !.entryType = args.entry_type.val, !.err = r.err],
     reqs |-> r.reqs, sessions |-> sessions, objs |-> objs, uuids |-> uuids,
     dayPages |-> RemoteServe(dayPages, r.reqs), subjPage |-> subjPage]

\* AzubiheftService.WriteReport
ToolWriteReport(args, f) ==
    IF ~args.session_id.has THEN Fail(ErrSessionRequired)
    ELSE IF ~args.date.has THEN Fail(ErrDateRequired)
    ELSE IF ~ParseDate(args.date.val).ok THEN Fail(ErrDateFormat)
    ELSE IF ~args.message.has THEN Fail("message is required")
    ELSE IF ~args.time_spent.has THEN Fail("time_spent is required")
    ELSE IF ~args.entry_type.has THEN Fail("entry_type is required")
    ELSE Bind(ParseDate(args.date.val).date, LAMBDA date :
         LET g == getSession(args.session_id.val, sessions, defaultSessionID)
         IN  IF g.err # "" THEN Fail(g.err)
             ELSE Bind(WriteReport(date, args.message.val,
                      args.time_spent.val, args.entry_type.val,
                      Net(1, f), Net(2, f), overview, now),
                      LAMBDA r : WriteReportReturn(args, date, r)))

\* AzubiheftService.DeleteReport from session.DeleteReport on
DeleteReportReturn(args, date, entryNumber, r) ==
    [text |-> IF r.err # "" THEN <<>>
              ELSE <<"Report(s) deleted successfully: ", args.date.val>>,
     err |-> IF r.err # "" THEN Wrap("failed to delete report", r.err) ELSE "",
     last |-> [NoLast EXCEPT !.op = "DeleteReport", !.date = date,
                             !.entryNumber = entryNumber, !.err = r.err],
     reqs |-> r.reqs, sessions |-> sessions, objs |-> objs, uuids |-> uuids,
     dayPages |-> RemoteServe(dayPages, r.reqs), subjPage |-> subjPage]

\* AzubiheftService.DeleteReport
ToolDeleteReport(args, f) ==
    IF ~args.session_id.has THEN Fail(ErrSessionRequired)
    ELSE IF ~args.date.has THEN Fail(ErrDateRequired)
    ELSE IF ~ParseDate(args.date.val).ok THEN Fail(ErrDateFormat)
    ELSE Bind(ParseDate(args.date.val).date, LAMBDA date :
         LET entryNumber == IF args.entry_number.has THEN EntryNo(args.entry_number.val)
                            ELSE NilEntry
             g == getSession(args.session_id.val, sessions, defaultSessionID)
         IN  IF g.err # "" THEN Fail(g.err)
             ELSE Bind(DeleteReport(date, entryNumber, Net(1, f), Net(2, f),
                      [i \in 1..MaxEntries |-> Net(i + 2, f)],
                      dayPages[date], overview, now),
                      LAMBDA r : DeleteReportReturn(args, date, entryNumber, r)))

\* AzubiheftService.GetWeekID from session.GetReportWeekID on
GetWeekIDReturn(args, date, r) ==
    Outcome(IF r.err # "" THEN <<>> ELSE <<"Week ID: ", args.date.val, r.weekID>>,
            IF r.err # "" THEN Wrap("failed to get week ID", r.err) ELSE "",
            [NoLast EXCEPT !.op = "GetReportWeekID", !.date = date, !.err = r.err,
                           !.weekID = r.weekID],
            r.reqs)

\* AzubiheftService.GetWeekID
ToolGetWeekID(args, f) ==
    IF ~args.session_id.has THEN Fail(ErrSessionRequired)
    ELSE IF ~args.date.has THEN Fail(ErrDateRequired)
    ELSE IF ~ParseDate(args.date.val).ok THEN Fail(ErrDateFormat)
    ELSE Bind(ParseDate(args.date.val).date, LAMBDA date :
         LET g == getSession(args.session_id.val, sessions, defaultSessionID)
         IN  IF g.err # "" THEN Fail(g.err)
             ELSE Bind(GetReportWeekID(date, Net(1, f), overview),
                      LAMBDA r : GetWeekIDReturn(args, date, r)))

\* registerTools: the names the handlers are registered under.
SessionTools ==
    {"azubiheft_logout", "azubiheft_is_logged_in", "azubiheft_get_subjects",
     "azubiheft_add_subject", "azubiheft_delete_subject", "azubiheft_get_report",
     "azubiheft_write_report", "azubiheft_delete_report", "azubiheft_get_week_id"}

Tools == {"azubiheft_login"} \cup SessionTools

\* s.handlers[toolName](ctx, args)
Handler(toolName, args, f) ==
    CASE toolName = "azubiheft_login" -> ToolLogin(args, f)
      [] toolName = "azubiheft_logout" -> ToolLogout(args, f)
      [] toolName = "azubiheft_is_logged_in" -> ToolIsLoggedIn(args, f)
      [] toolName = "azubiheft_get_subjects" -> ToolGetSubjects(args, f)
      [] toolName = "azubiheft_add_subject" -> ToolAddSubject(args, f)
      [] toolName = "azubiheft_delete_subject" -> ToolDeleteSubject(args, f)
      [] toolName = "azubiheft_get_report" -> ToolGetReport(args, f)
      [] toolName = "azubiheft_write_report" -> ToolWriteReport(args, f)
      [] toolName = "azubiheft_delete_report" -> ToolDeleteReport(args, f)
      [] toolName = "azubiheft_get_week_id" -> ToolGetWeekID(args, f)

(***************************************************************************)
(* mcp.Server: Serve reads standard input line by line, handles each line  *)
(* before it reads the next, and writes its responses to standard output.  *)
(***************************************************************************)
MaxLines == 2

\* JSONRPCResponse with a result: a tool result, or the result of another
\* method (text names it).
ResultResponse(id, isError, text) ==
    [id |-> id, kind |-> "result", code |-> 0, message |-> "", isError |-> isError,
     text |-> text]

\* JSONRPCResponse with an error
ErrorResponse(id, code, message) ==
    [id |-> id, kind |-> "error", code |-> code, message |-> message,
     isError |-> FALSE, text |-> <<>>]

\* sendResponse: json.Marshal, then fmt.Println; the responses of this
\* server all marshal.
sendResponse(out, response) == Append(out, response)

sendResult(out, id, isError, text) == sendResponse(out, ResultResponse(id, isError, text))

sendError(out, id, code, message) == sendResponse(out, ErrorResponse(id, code, message))

\* What handling a line leaves: the responses written and the handler's
\* outcome.
Handled(out, o) == [out |-> out, o |-> o]

\* handleToolsCall with the handler error reported as a JSON-RPC error.
handleToolsCallRPCError(req, f) ==
    IF ~req.hasName
    THEN Handled(sendError(<<>>, req.id, -32602, "Invalid params: missing tool name"),
                 Fail(""))
    ELSE IF req.name \notin Tools
    THEN Handled(sendError(<<>>, req.id, -32601, "Tool not found: " \o req.name),
                 Fail(""))
    ELSE Bind(IF req.hasArgs THEN req.args ELSE NoArgs, LAMBDA args :
         Bind(Handler(req.name, args, f), LAMBDA o :
              IF o.err # ""
              THEN Handled(sendError(<<>>, req.id, -32603, o.err), o)
              ELSE Handled(sendResult(<<>>, req.id, FALSE, o.text), o)))

\* handleToolsCall
handleToolsCall(req, f) ==
    IF ~req.hasName
    THEN Handled(sendError(<<>>, req.id, -32602, "Invalid params: missing tool name"),
                 Fail(""))
    ELSE IF req.name \notin Tools
    THEN Handled(sendError(<<>>, req.id, -32601, "Tool not found: " \o req.name),
                 Fail(""))
    ELSE Bind(IF req.hasArgs THEN req.args ELSE NoArgs, LAMBDA args :
         Bind(Handler(req.name, args, f), LAMBDA o :
              IF o.err # ""
              THEN Handled(sendResult(<<>>, req.id, TRUE, <<"Error: " \o o.err>>), o)
              ELSE Handled(sendResult(<<>>, req.id, FALSE, o.text), o)))

\* handleRequest
handleRequest(req, f) ==
    CASE req.method = "initialize" ->
            Handled(sendResult(<<>>, req.id, FALSE, <<"initialize">>), Fail(""))
      [] req.method = "tools/list" ->
            Handled(sendResult(<<>>, req.id, FALSE, <<"tools">>), Fail(""))
      [] req.method = "tools/call" -> handleToolsCall(req, f)
      [] req.method = "ping" -> Handled(sendResult(<<>>, req.id, FALSE, <<>>), Fail(""))
      [] OTHER -> Handled(sendError(<<>>, req.id, -32601, "Method not found"), Fail(""))

\* The body of Serve's loop that logs a line it cannot parse and goes on.
ServeLineSilent(line, f) ==
    IF line.kind = "garbage"
    THEN Handled(<<>>, Fail(""))
    ELSE handleRequest(line, f)

\* The body of Serve's loop after a line was read: a line that does not
\* parse is answered with the parse error, any other is handled.
ServeLine(line, f) ==
    IF line.kind = "garbage"
    THEN Handled(sendError(<<>>, NilID, -32700, "Parse error"), Fail(""))
    ELSE handleRequest(line, f)

(***************************************************************************)
(* The lines of the model.                                                 *)
(***************************************************************************)
Request(id, method) == [NoLine EXCEPT !.kind = "request", !.id = id, !.method = method]

Call(id, name, args) ==
    [Request(id, "tools/call") EXCEPT !.hasName = TRUE, !.name = name,
                                      !.hasArgs = TRUE, !.args = args]

\* Complete arguments for each tool, but for session_id.
FullArgs ==
    [NoArgs EXCEPT !.subject_name = Str("Mathe"), !.subject_id = Str("Abc"),
                   !.date = Str("2024-12-30"),
                   !.message = [has |-> TRUE, val |-> <<"hello", "\n", "world">>],
                   !.time_spent = [has |-> TRUE, val |-> <<"01:30">>],
                   !.entry_type = [has |-> TRUE, val |-> 2]]

\* Arguments that lack one of the others, or have a date that does not
\* parse, a formatting flag or an entry number.
OtherArgs ==
    { [FullArgs EXCEPT !.session_id = Str("default"), !.subject_name = Absent],
      [FullArgs EXCEPT !.session_id = Str("default"), !.subject_id = Absent],
      [FullArgs EXCEPT !.session_id = Str("default"), !.date = Absent],
      [FullArgs EXCEPT !.session_id = Str("default"), !.date = Str("30.12.2024")],
      [FullArgs EXCEPT !.session_id = Str("default"), !.message = AbsentSeq],
      [FullArgs EXCEPT !.session_id = Str("default"), !.time_spent = AbsentSeq],
      [FullArgs EXCEPT !.session_id = Str("default"), !.entry_type = AbsentNum],
      [FullArgs EXCEPT !.session_id = Str("default"),
                       !.include_formatting = [has |-> TRUE, val |-> TRUE]],
      [FullArgs EXCEPT !.session_id = Str("default"),
                       !.entry_number = [has |-> TRUE, val |-> 1]] }

ToolArgs ==
    {[FullArgs EXCEPT !.session_id = sessionID] : sessionID \in SessionArgs}
        \cup OtherArgs

LoginLines(id) ==
    {Call(id, "azubiheft_login",
          [NoArgs EXCEPT !.username = a.username, !.password = a.password])
       : a \in LoginArgs}

Lines(id) ==
    {[NoLine EXCEPT !.kind = "garbage"]}
        \cup {Request(id, m) : m \in {"initialize", "tools/list", "ping", "resources/list"}}
        \cup {Request(id, "tools/call"),
              Call(id, "azubiheft_nosuch", NoArgs),
              [Request(id, "tools/call") EXCEPT !.hasName = TRUE,
                                                !.name = "azubiheft_get_subjects"]}
        \cup LoginLines(id)
        \cup {Call(id, name, args) : name \in SessionTools, args \in ToolArgs}

\* The failures a tool's requests can meet.
ToolFailures(line) ==
    IF line.kind # "request" \/ line.method # "tools/call" \/ ~line.hasName
    THEN {NoFailure}
    ELSE CASE line.name = "azubiheft_login" -> LoginFailures
           [] line.name \in {"azubiheft_add_subject", "azubiheft_delete_subject"} ->
                 SubjectFailures
           [] line.name = "azubiheft_write_report" -> Failures(1, 1)
           [] line.name = "azubiheft_delete_report" -> Failures(2, MaxEntries)
           [] line.name = "azubiheft_logout" -> {NoFailure, [at |-> 1, kind |-> "transport"]}
           [] OTHER -> {NoFailure, [at |-> 1, kind |-> "transport"],
                        [at |-> 1, kind |-> "read"]}

\* The bounds of the model leave room for what the line may create.
Room(line) ==
    \/ line.name = "azubiheft_login" /\ Len(objs) < MaxSessions
    \/ line.name = "azubiheft_write_report"
          /\ TotalEntries(dayPages, ReportDates) < MaxEntries
    \/ line.name = "azubiheft_add_subject" /\ Len(subjPage.inputs) < MaxInputs
    \/ line.name \notin {"azubiheft_login", "azubiheft_write_report",
                          "azubiheft_add_subject"}

\* Serve that reads on while handleRequest runs.
CanReadWhileHandling(s) == s.pc \in {"read", "handle"}

\* Serve is at ReadBytes: handleRequest is called in the loop's own body, so
\* every call of it has returned.
CanRead(s) == s.pc = "read"

\* line, err := reader.ReadBytes('\n') with a line
ServeRead ==
    /\ CanRead(serve)
    /\ serve.lines < MaxLines
    /\ \E line \in Lines(ID(serve.lines + 1)) :
        /\ Room(line)
        /\ serve' = [serve EXCEPT !.pc = "handle", !.line = line, !.lines = @ + 1]
    /\ stdout' = <<>>
    /\ last' = NoLast
    /\ reqs' = <<>>
    /\ UNCHANGED <<overview, dayPages, subjPage, now, serviceVars>>

\* json.Unmarshal, s.sendError or s.handleRequest(req), and back to the
\* head of the loop
ServeHandle ==
    /\ serve.pc = "handle"
    /\ \E line \in {serve.line} :
      \E f \in ToolFailures(line) :
      \E h \in {ServeLine(line, f)} :
            /\ stdout' = h.out
            /\ last' = h.o.last
            /\ reqs' = h.o.reqs
            /\ sessions' = h.o.sessions
            /\ objs' = h.o.objs
            /\ uuids' = h.o.uuids
            /\ dayPages' = h.o.dayPages
            /\ subjPage' = h.o.subjPage
    /\ serve' = [serve EXCEPT !.pc = "read", !.line = NoLine, !.handled = @ + 1]
    /\ UNCHANGED <<overview, now, defaultSessionID, mu, calls>>

\* ReadBytes fails: io.EOF ends Serve with nil, another error with an error.
ServeReturn ==
    /\ CanRead(serve)
    /\ \E err \in {"EOF", "error reading input"} :
        serve' = [serve EXCEPT !.pc = IF err = "EOF" THEN "returned nil"
                                       ELSE "returned error"]
    /\ UNCHANGED <<overview, dayPages, subjPage, now, last, reqs, serviceVars, stdout>>

\* main: NewAzubiheftService with the credentials of the environment, then
\* Serve.
InitServer ==
    /\ overview = <<GoodTile("1", "2024", 13), GoodTile("1", "2025", 11)>>
    /\ dayPages = [x \in ReportDates |->
                      <<Container(<<SeqNumerals[1]>>, <<"01:30">>,
                                  <<"\n", "Art: ", "Schule">>, <<"<div>", "a", "</div>">>)>>]
    /\ subjPage = [hasDiv |-> TRUE, inputs |-> <<RenderSubject("Abc", "Werken")>>,
                   tokens |-> AllTokens]
    /\ now = StartTime
    /\ mu = [writer |-> 0, readers |-> {}]
    /\ calls = <<>>
    /\ uuids = 0
    /\ serve = NoServe
    /\ stdout = <<>>
    /\ \E env \in EnvCredentials, f \in LoginFailures :
        IF env.username # "" /\ env.password # ""
        THEN LET heap == NewSession(<<>>)
                 r == SessionLogin(env.username, env.password, Net(1, f), Net(2, f),
                                   Net(3, f), AllTokens, heap[1].jar)
             IN  /\ objs = IF r.err # "" THEN <<>>
                           ELSE <<[jar |-> r.jar, probed |-> ProbeRead(r.reqs)]>>
                 /\ last = [NoLast EXCEPT !.op = "Login", !.username = env.username,
                                          !.err = r.err]
                 /\ reqs = r.reqs
                 /\ sessions = IF r.err = "" THEN MapPut(EmptyMap, "default", 1)
                               ELSE EmptyMap
                 /\ defaultSessionID = IF r.err = "" THEN "default" ELSE ""
        ELSE /\ objs = <<>>
             /\ last = NoLast
             /\ reqs = <<>>
             /\ sessions = EmptyMap
             /\ defaultSessionID = ""

NextServer ==
    \/ ServeRead
    \/ ServeHandle
    \/ ServeReturn

\* The protocol server with the tools of one AzubiheftService.
SpecServer == InitServer /\ [][NextServer]_vars

(***************************************************************************)
(* Claims about the tools called through the protocol server.              *)
(***************************************************************************)
\* Serve is handling a tools/call for one of the tools `names`.
HandlingCall(names) ==
    /\ serve.pc = "handle"
    /\ serve.line.kind = "request"
    /\ serve.line.method = "tools/call"
    /\ serve.line.hasName
    /\ serve.line.name \in names

\* The arguments of the call in hand.
LineArgs == IF serve.line.hasArgs THEN serve.line.args ELSE NoArgs

\* The call in hand has every argument its tool requires but, perhaps,
\* session_id.
OthersComplete == [LineArgs EXCEPT !.session_id = Absent] = FullArgs

\* The responses an invalid handle is answered with.
InvalidHandleTexts ==
    {<<"Error: " \o ErrInvalidSession>>, <<"Error: " \o ErrInvalidSessionHint>>}

\* C13 as stated: with the default session of the startup login in the
\* registry, a call of a session-scoped tool that omits session_id and has
\* its other arguments runs its Session operation, on the default session,
\* and is not answered with a failure.
C13_OmittedSessionUsesDefault ==
    [][(/\ HandlingCall(SessionTools)
        /\ defaultSessionID # ""
        /\ defaultSessionID \in DOMAIN sessions
        /\ ~LineArgs.session_id.has
        /\ OthersComplete)
          => /\ last'.op # "none"
             /\ stdout'[1].text # <<"Error: " \o ErrSessionRequired>>]_vars

\* C14: a tool call that resolves a handle that is no key of the registry,
\* one never created or one removed, is answered with the invalid-handle
\* error as its tool failure, issues no request to the remote and leaves
\* the registry and its Session objects as they were.
C14_UnknownHandleFails ==
    [][(/\ HandlingCall(SessionTools)
        /\ OthersComplete
        /\ LineArgs.session_id.has \/ serve.line.name = "azubiheft_get_subjects"
        /\ Resolve(LineArgs.session_id.val) \notin DOMAIN sessions)
          => /\ Len(stdout') = 1
             /\ stdout'[1].id = serve.line.id
             /\ stdout'[1].isError
             /\ stdout'[1].text \in InvalidHandleTexts
             /\ reqs' = <<>>
             /\ last' = NoLast
             /\ sessions' = sessions
             /\ objs' = objs]_vars

C14_Witness ==
    /\ serve.pc = "read"
    /\ serve.handled = 2
    /\ defaultSessionID = "default"
    /\ "default" \notin DOMAIN sessions
    /\ stdout # <<>>
    /\ stdout[1].text = <<"Error: " \o ErrInvalidSessionHint>>
    /\ reqs = <<>>

\* C15 as stated: once a Logout tool call has returned success for a
\* session_id argument, resolving that same argument fails with the
\* invalid-handle error.
C15_LogoutRemovesHandle ==
    [][(/\ HandlingCall({"azubiheft_logout"})
        /\ stdout' = <<ResultResponse(serve.line.id, FALSE, <<"Logout successful">>)>>)
          => getSession(LineArgs.session_id.val, sessions', defaultSessionID').err
                \in {ErrInvalidSession, ErrInvalidSessionHint}]_vars

\* The response handleToolsCall owes for the outcome o of a handler.
OwedResponse(id, o) ==
    IF o.err # "" THEN ResultResponse(id, TRUE, <<"Error: " \o o.err>>)
    ELSE ResultResponse(id, FALSE, o.text)

\* C16: handling a tools/call for a registered tool writes exactly one
\* response, with the id of the request; when the handler returns an error
\* the response is a tool result with isError true and the error's text; and
\* Serve has not returned but is back at reading the next line.
C16_HandlerErrorAnswered ==
    [][HandlingCall(Tools)
          => /\ Len(stdout') = 1
             /\ stdout'[1].id = serve.line.id
             /\ stdout'[1].kind = "result"
             /\ \E f \in ToolFailures(serve.line) :
                  Bind(Handler(serve.line.name, LineArgs, f), LAMBDA o :
                       /\ last' = o.last
                       /\ reqs' = o.reqs
                       /\ stdout'[1] = OwedResponse(serve.line.id, o))
             /\ (last'.err # "" \/ last' = NoLast)
                    => stdout'[1].isError /\ stdout'[1].text # <<>>
             /\ serve'.pc = "read"
             /\ CanRead(serve')]_vars

C16_Witness ==
    /\ serve.pc = "read"
    /\ serve.handled = 1
    /\ serve.lines < MaxLines
    /\ last.op = "WriteReport"
    /\ last.err # ""
    /\ stdout = <<ResultResponse(ID(1), TRUE,
                                 <<"Error: " \o Wrap("failed to write report", last.err)>>)>>

\* What makes two requests the same step of an invocation.
Step(r) == [method |-> r.method, path |-> r.path, date |-> r.date, form |-> r.form]

\* No request of the last Session call repeats another.
NoStepTwice == \A i, j \in 1..Len(reqs) : i # j => Step(reqs[i]) # Step(reqs[j])

LoginSteps ==
    /\ Len(reqs) <= 3
    /\ \A i \in 1..Len(reqs) :
          /\ reqs[i].method = <<"GET", "POST", "GET">>[i]
          /\ reqs[i].path = <<LoginPath, LoginPath, ProbePath>>[i]

\* C17 as stated: in one invocation of a Session operation no step's
\* request is issued twice, and the first request that meets a transport
\* failure or a non-success status is the last request and the invocation
\* ends with an error (Login: at most one page GET, one POST, one probe).
C17_NoRetryFirstFailureEnds ==
    last.op # "none" =>
        /\ NoStepTwice
        /\ \A i \in 1..(Len(reqs) - 1) : reqs[i].outcome = "ok"
        /\ (reqs # <<>> /\ reqs[Len(reqs)].outcome # "ok") => last.err # ""
        /\ last.op = "Login" => LoginSteps

\* C17 amended: no step's request is issued twice; the first transport
\* failure, or non-success status of a POST whose status the operation
\* checks, is the last request, and the invocation ends with an error, or
\* with false for IsLoggedIn, which has no error to return; Login does not
\* check the status of its form POST and goes on to its probe.
C17_NoRetry ==
    last.op # "none" =>
        /\ NoStepTwice
        /\ \A i \in 1..(Len(reqs) - 1) :
              \/ reqs[i].outcome = "ok"
              \/ last.op = "Login" /\ i = 2 /\ reqs[i].outcome = "status"
        /\ (reqs # <<>> /\ reqs[Len(reqs)].outcome # "ok") =>
              \/ last.err # ""
              \/ last.op = "IsLoggedIn" /\ ~last.loggedIn
        /\ last.op = "Login" => LoginSteps
        /\ (last.op = "Login" /\ Len(reqs) >= 2 /\ reqs[2].outcome = "status")
              => Len(reqs) = 3

C17_Witness ==
    /\ last.op = "Login"
    /\ Len(reqs) = 3
    /\ reqs[2].outcome = "status"
    /\ serve.handled = 1

\* C19 as stated: while a tools/call is being handled and there is input
\* left, the server can read the next line and start on it.
C19_CallsOverlap ==
    (HandlingCall(Tools) /\ serve.lines < MaxLines) => CanRead(serve)

\* C19 amended: the server reads a line only when every line it has read
\* before is handled and answered, so no two tools/call requests are ever
\* in execution at once, on one session or on two.
C19_OneCallAtATime ==
    [][serve'.lines # serve.lines
          => /\ serve.handled = serve.lines
             /\ serve.pc = "read"
             /\ serve'.lines = serve.lines + 1
             /\ serve.lines > 0 => Len(stdout) = 1]_vars

C19_Witness ==
    /\ HandlingCall(Tools)
    /\ serve.lines = 2
    /\ serve.handled = 1

\* The methods handleRequest has a case for.
KnownMethods == {"initialize", "tools/list", "tools/call", "ping"}

\* The error code the protocol owes a line; 0: the line is owed a result.
OwedCode(line) ==
    IF line.kind = "garbage" THEN -32700
    ELSE IF line.method \notin KnownMethods THEN -32601
    ELSE IF line.method = "tools/call" /\ ~line.hasName THEN -32602
    ELSE IF line.method = "tools/call" /\ line.name \notin Tools THEN -32601
    ELSE 0

\* C29: the server handles its input lines one at a time.  Between reading a
\* line and reading the next it writes exactly one response: an error with
\* code -32700 and no id for a line that is not JSON, with code -32601 for a
\* method or a tool it does not know, with code -32602 for a tools/call
\* without a tool name, and a result otherwise, each but the parse error
\* under the id of its line, so the responses come in the order of the
\* lines; and Serve returns only from reading, at the end of the input or
\* at a read error, with no line left unanswered.
C29_OneResponsePerLine ==
    [][/\ serve'.handled # serve.handled
             => /\ serve.pc = "handle"
                /\ serve'.handled = serve.handled + 1
                /\ serve'.handled = serve.lines
                /\ Len(stdout') = 1
                /\ stdout'[1].id = IF serve.line.kind = "garbage" THEN NilID
                                   ELSE ID(serve.lines)
                /\ IF OwedCode(serve.line) = 0
                   THEN stdout'[1].kind = "result"
                   ELSE /\ stdout'[1].kind = "error"
                        /\ stdout'[1].code = OwedCode(serve.line)
       /\ serve'.lines # serve.lines
             => /\ serve'.lines = serve.handled + 1
                /\ serve'.line.kind # "garbage" => serve'.line.id = ID(serve'.lines)
                /\ stdout' = <<>>
       /\ serve.pc = "handle" => serve'.pc = "read"
       /\ (serve'.pc \in {"returned nil", "returned error"} /\ serve'.pc # serve.pc)
             => /\ serve.pc = "read"
                /\ serve.handled = serve.lines
                /\ stdout' = stdout
       /\ serve.pc \in {"returned nil", "returned error"} => serve' = serve]_vars

\* The second line is a tools/call without a tool name; the first was
\* answered before it was read.
C29_Witness ==
    /\ serve.pc = "read"
    /\ serve.lines = 2
    /\ serve.handled = 2
    /\ stdout = <<ErrorResponse(ID(2), -32602, "Invalid params: missing tool name")>>

\* Lines that are not JSON and lines with an unknown method are answered too.
C29_WitnessParseError ==
    /\ serve.handled = 1
    /\ stdout = <<ErrorResponse(NilID, -32700, "Parse error")>>

C29_WitnessReturned ==
    /\ serve.pc = "returned nil"
    /\ serve.handled = 2

\* The sessions the handles of a registry stand for.
Registered(registry) == {registry[k] : k \in DOMAIN registry}

\* C30: a Login tool call changes the registry only when it succeeds.  A
\* call that fails (an argument is missing, a request fails in transport or
\* the probe does not confirm the login) leaves the map of handles as it
\* was; a call that succeeds adds one handle, the one its response names,
\* for a session no handle stood for, and every handle the map held, the
\* default handle among them, stands for the session it stood for, which is
\* as it was.
C30_LoginChangesRegistryOnSuccess ==
    [][HandlingCall({"azubiheft_login"})
          => /\ Len(stdout') = 1
             /\ stdout'[1].kind = "result"
             /\ stdout'[1].isError
                   <=> (~LineArgs.username.has \/ ~LineArgs.password.has
                           \/ last'.err # "")
             /\ defaultSessionID' = defaultSessionID
             /\ stdout'[1].isError => sessions' = sessions
             /\ ~stdout'[1].isError
                   => \E id \in DOMAIN sessions' \ DOMAIN sessions :
                         /\ DOMAIN sessions' = DOMAIN sessions \cup {id}
                         /\ stdout'[1].text = <<"Login successful. Session ID: ", id>>
                         /\ sessions'[id] \notin Registered(sessions)
                         /\ \A k \in DOMAIN sessions :
                               /\ sessions'[k] = sessions[k]
                               /\ objs'[sessions[k]] = objs[sessions[k]]]_vars

\* A login beside the default session of the startup login.
C30_Witness ==
    /\ serve.pc = "read"
    /\ serve.handled >= 1
    /\ last.op = "Login"
    /\ last.err = ""
    /\ Len(stdout) = 1
    /\ ~stdout[1].isError
    /\ defaultSessionID = "default"
    /\ DOMAIN sessions = {"default", NewUUID(0)}
    /\ sessions["default"] # sessions[NewUUID(0)]

\* A login the probe did not confirm, beside the default session.
C30_WitnessFailed ==
    /\ serve.pc = "read"
    /\ serve.handled >= 1
    /\ last.op = "Login"
    /\ last.err = ErrLoginInvalid
    /\ Len(stdout) = 1
    /\ stdout[1].isError
    /\ DOMAIN sessions = {"default"}

(***************************************************************************)
(* Claims about the lock of the registry.                                  *)
(***************************************************************************)
\* C20: a caller reads the registry map exactly while it holds the read
\* lock and changes it exactly while it holds the write lock; readers may
\* hold the lock together, a writer holds it alone; and a caller whose
\* Session talks to the remote holds no lock.
C20_RegistryUnderLock ==
    [][/\ \A t \in Callers :
            /\ calls[t].pc = "lookup" <=> t \in mu.readers
            /\ calls[t].pc \in {"login_store", "logout_delete"} <=> mu.writer = t
       /\ mu.writer # 0 => mu.readers = {}
       /\ sessions' # sessions =>
            \E t \in Callers : mu.writer = t /\ calls'[t].pc = "idle" /\ mu'.writer = 0
       /\ (last' # last \/ reqs' # reqs) =>
            \E t \in Callers :
                /\ calls[t].pc \in {"idle", "logout", "probe"}
                /\ calls'[t] # calls[t] \/ calls[t].pc = "idle"
                /\ t \notin mu.readers
                /\ mu.writer # t]_vars

C20_Witness ==
    /\ mu.readers = {1, 2}
    /\ mu.writer = 0
    /\ calls[1].op = "Logout"
    /\ calls[2].op = "IsLoggedIn"

(***************************************************************************)
(* The http.Client of a Session: what a request becomes when the remote    *)
(* answers with redirects.  The remote's answers to the requests of one    *)
(* call are a chain: redirects, then an answer that is none.               *)
(***************************************************************************)
MaxHops == 2

\* A redirect response; location "" is one without a Location header.
Redirect(location) == [redirect |-> TRUE, location |-> location, net |-> "ok", body |-> <<>>]

\* Any other answer: a response with a body, or a failure.
Final(net, body) == [redirect |-> FALSE, location |-> "", net |-> net, body |-> body]

Answers ==
    {Redirect(l) : l \in {"", LoginPath, ProbePath, LogoutPath, SubjectPath}}
        \cup {Final("transport", <<>>), Final("read", <<>>)}
        \cup {Final("ok", b) : b \in {<<>>, RemoteProbeBody(""), RemoteProbeBody("u1")}}

\* The chains of at most MaxHops redirects that name a target, and the
\* answer that ends them.
Chains ==
    { c \in SeqUpTo(Answers, MaxHops + 1) :
        /\ c # <<>>
        /\ \A i \in 1..(Len(c) - 1) : c[i].redirect /\ c[i].location # ""
        /\ ~(c[Len(c)].redirect /\ c[Len(c)].location # "") }

\* A CheckRedirect that stops at the redirect response.
CheckRedirectUseLastResponse(location, via) == "ErrUseLastResponse"

\* The CheckRedirect of NewSession: nil for every redirect.
CheckRedirect(location, via) == "nil"

\* The request the client logs for an answer.
Answered(path, a) ==
    IF a.redirect
    THEN [Get(path, NoDate, "redirect") EXCEPT
             !.body = IF a.location = "" THEN <<>> ELSE <<"Location: ", a.location>>]
    ELSE GetBody(path, a.net, a.body)

\* s.client.Get(path): the client asks CheckRedirect about a redirect that
\* names a target and on nil sends the next request there; the answer it
\* does not follow is the response of the call.
RECURSIVE ClientGet(_, _, _)
ClientGet(path, answers, via) ==
    LET a == Head(answers)
    IN  IF a.redirect /\ a.location # "" /\ CheckRedirect(a.location, via) = "nil"
        THEN LET rest == ClientGet(a.location, Tail(answers), Append(via, path))
             IN  [rest EXCEPT !.reqs = <<Answered(path, a)>> \o @]
        ELSE [reqs |-> <<Answered(path, a)>>, net |-> a.net, body |-> a.body]

\* Session.IsLoggedIn with its request sent through the client.
ClientGetCall ==
    \E chain \in Chains :
      LET c == ClientGet(ProbePath, chain, <<>>)
      IN  /\ last' = [NoLast EXCEPT !.op = "IsLoggedIn",
                                    !.loggedIn = IsLoggedIn(c.net, c.body).loggedIn]
          /\ reqs' = c.reqs
          /\ UNCHANGED <<overview, dayPages, subjPage, now, serviceVars, serverVars>>

InitTransport ==
    /\ overview = <<>>
    /\ dayPages = [x \in ReportDates |-> <<>>]
    /\ subjPage = NoSubjPage
    /\ now = StartTime
    /\ last = NoLast
    /\ reqs = <<>>
    /\ NoService

NextTransport == ClientGetCall

\* The probe of a Session against a remote that redirects.
SpecTransport == InitTransport /\ [][NextTransport]_vars

(***************************************************************************)
(* Claims about the transport.                                             *)
(***************************************************************************)
\* C18 as stated: when the remote answers the request of a call with a
\* redirect, that request is the only one the client issues and the call
\* sees the redirect response, which holds no logout marker.
C18_NeverFollowsRedirect ==
    (last.op = "IsLoggedIn" /\ reqs # <<>> /\ reqs[1].outcome = "redirect")
        => Len(reqs) = 1 /\ ~last.loggedIn

\* C18 amended: the client follows every redirect that names a target with
\* a GET to that target, so each request of a call but the last was answered
\* with such a redirect, and the call sees the answer to its last request.
C18_FollowsRedirects ==
    last.op = "IsLoggedIn" =>
        /\ reqs # <<>>
        /\ \A i \in 1..Len(reqs) :
              /\ (reqs[i].outcome = "redirect" /\ reqs[i].body # <<>>) <=> i < Len(reqs)
              /\ i < Len(reqs) =>
                    /\ reqs[i + 1].method = "GET"
                    /\ reqs[i + 1].path = reqs[i].body[2]
        /\ last.loggedIn <=>
              /\ reqs[Len(reqs)].outcome = "ok"
              /\ MarkerIn(reqs[Len(reqs)].body)

C18_Witness ==
    /\ last.op = "IsLoggedIn"
    /\ last.loggedIn
    /\ Len(reqs) = 3
    /\ reqs[1].outcome = "redirect"
    /\ reqs[2].path = LoginPath
    /\ reqs[3].path = ProbePath

====
